---------------------------- MODULE Spec2Model ----------------------------
(***************************************************************************)
(* A model of the comment cache of the codieum extension:                  *)
(*   - CommentStorage (src/src/commentStorage.ts): the JSON-backed store   *)
(*     keyed by (file path, abstraction level), invalidated by file hash;  *)
(*   - LLMRouter.parseComments (src/src/llmRouter.ts): the level-5         *)
(*     line-alignment of a raw response with the source lines;             *)
(*   - CommentManager.generateCommentsForFile (src/src/commentManager.ts): *)
(*     the cache-or-generate pipeline with overlapping requests;           *)
(*   - handleEditorChange (src/unnamed/part_001): the debounce timer;      *)
(*   - the commands and the panel of CommentManager (showCommentsSideBySide,*)
(*     switchToLevel, updatePanelContent);                                 *)
(*   - getCurrentSummary (src/unnamed/part_001): the summary database.     *)
(*                                                                         *)
(* Each part has its own specification (SpecStore, SpecLoad, SpecFolders   *)
(* and SpecPut for the store, SpecParse, SpecGen, SpecCmd, SpecDebounce,   *)
(* SpecSummary) over the same variables; a specification holds the         *)
(* variables of the other parts at idle values.                            *)
(***************************************************************************)
EXTENDS Integers, Sequences, FiniteSets, TLC

VARIABLES
    data,              \* CommentStorage.data: the in-memory document
    disk,              \* the content of <workspace>/.scope-comments.json
    workspaceFolders,  \* vscode.workspace.workspaceFolders (a sequence of roots)
    now,               \* the value Date.now() returns
    ops,               \* number of store operations run so far (bounds the run)
    last,              \* the last store operation: its arguments and outcome
    parse,             \* a call of LLMRouter.parseComments: arguments and result
    fsFiles,           \* the source files on disk, by absolute path
    storage,           \* CommentManager.storage is defined (a workspace is open)
    apiKey,            \* LLMRouter.defaultConfig.apiKey is non-empty
    commentCache,      \* CommentManager.commentCache (legacy, in memory)
    hashCache,         \* CommentManager.hashCache (legacy, in memory)
    calls,             \* the invocations of generateCommentsForFile, in start order
    resolved,          \* the invocations whose generation call resolved, in that order
    clock,             \* the time of the extension host, in milliseconds
    active,            \* the extension is activated (deactivate has not run)
    debounceTimer,     \* the handle held by debounceTimer (0: undefined)
    timers,            \* the host's pending timers: handle, due time, captured editor
    triggers,          \* the calls of handleEditorChange: time and editor
    runs,              \* the runs of the deferred action: handle, time, editor, branch
    currentPanel,      \* the webview panel: exists, visible, html
    enabled,           \* the setting sampleTextPanel.enabled
    updates,           \* updatePanelContent calls: awaiting their summary, failed
    listeners,         \* registered document-change and configuration-change listeners
    activeTextEditor,  \* vscode.window.activeTextEditor: the path of its document
    manager,           \* CommentManager: currentPanel, currentFilePath, currentLevel, ...
    commands,          \* the user actions run so far: command, arguments, call started
    messages,          \* the messages shown to the user, in order
    summaryDatabase,   \* the auto-panel's summaryDatabase: key -> SummaryRecord
    currentAbstractionLevel, \* the auto-panel's currentAbstractionLevel
    summaries,         \* the invocations of getCurrentSummary, in start order
    documentText       \* the text of the active editor's document

storeVars == <<data, disk, workspaceFolders, now, ops, last>>

parseVars == <<parse>>

genVars == <<fsFiles, storage, apiKey, commentCache, hashCache, calls, resolved>>

uiVars == <<clock, active, debounceTimer, timers, triggers, runs, currentPanel,
            enabled, updates, listeners>>

cmdVars == <<activeTextEditor, manager, commands, messages>>

sumVars == <<summaryDatabase, currentAbstractionLevel, summaries, documentText>>

\* the variables the store's operations leave alone
nonStoreVars == <<parseVars, genVars, uiVars, cmdVars, sumVars>>

vars == <<storeVars, parseVars, genVars, uiVars, cmdVars, sumVars>>

----------------------------------------------------------------------------
(* Bounds of the model *)

\* store operations per behaviour
MaxOps == 2
\* the largest value of the clock
MaxClock == 1
\* the longest source text handed to parseComments, in characters
MaxCodeLen == 4
\* the longest raw response handed to parseComments, in characters
MaxRespLen == 3
\* invocations of generateCommentsForFile per behaviour
MaxCalls == 2
\* user actions (commands) per behaviour
MaxCommands == 2
\* calls of handleEditorChange per behaviour
MaxTriggers == 3
\* the time up to which the clock runs, in milliseconds
MaxTime == 600

\* invocations of getCurrentSummary per behaviour
MaxSummaries == 3

----------------------------------------------------------------------------
(* Generic helpers on maps (JavaScript objects used as dictionaries) *)

EmptyMap == [k \in {} |-> k]

Put(m, k, v) == [x \in (DOMAIN m) \cup {k} |-> IF x = k THEN v ELSE m[x]]

Del(m, k) == [x \in (DOMAIN m) \ {k} |-> m[x]]

\* all sequences over S of length at most n
SeqsUpTo(S, n) == UNION {[1..k -> S] : k \in 0..n}

RECURSIVE SumOver(_, _)
SumOver(S, f) ==
    IF S = {} THEN 0
    ELSE LET x == CHOOSE y \in S : TRUE IN f[x] + SumOver(S \ {x}, f)

----------------------------------------------------------------------------
(* Values *)

STORAGE_VERSION == "1.0.0"

\* a version string of an older format, and the absent version
OldVersion == "0.9.0"
Undefined == "undefined"

\* workspace roots and files, as sequences of path segments
WorkspaceRoot == <<"ws">>
FilePaths == {<<"ws", "a.ts">>, <<"ws", "b.ts">>}

\* abstraction levels exercised (of the five, the two extremes)
Levels == {1, 5}

\* file contents (opaque here: the store only hashes them)
Contents == {"c1", "c2"}

\* comment sequences handed to storeComments: empty, two of one comment, one
\* of two
CommentSeqs == {<<>>, <<"x">>, <<"y">>, <<"x", "y">>}

Models == {"martian"}
Languages == {"typescript"}

----------------------------------------------------------------------------
(* CommentStorage: pure helpers *)

\* generateCacheKey: `level_${abstractionLevel}`; the file path is ignored
generateCacheKey(filePath, abstractionLevel) ==
    <<"level_1", "level_2", "level_3", "level_4", "level_5">>[abstractionLevel]

\* calculateFileHash: the md5 digest, modelled as an injective tagging
calculateFileHash(content) == <<"md5", content>>

\* path.relative(from, to) on segment sequences: drop the common prefix, then
\* one ".." per remaining segment of from, then the rest of to
RECURSIVE CommonPrefixLen(_, _)
CommonPrefixLen(a, b) ==
    IF a # <<>> /\ b # <<>> /\ Head(a) = Head(b)
    THEN 1 + CommonPrefixLen(Tail(a), Tail(b))
    ELSE 0

PathRelative(from, to) ==
    LET n == CommonPrefixLen(from, to)
    IN  [i \in 1..(Len(from) - n) |-> ".."] \o SubSeq(to, n + 1, Len(to))

\* getRelativeFilePath
getRelativeFilePath(folders, filePath) ==
    IF Len(folders) > 0 THEN PathRelative(folders[1], filePath) ELSE filePath

\* createEmptyStorage
createEmptyStorage(t) ==
    [version  |-> STORAGE_VERSION,
     metadata |-> [createdAt |-> t, updatedAt |-> t,
                   totalFiles |-> 0, totalComments |-> 0],
     files    |-> EmptyMap]

\* the counters updateMetadata computes from the files map
CountFiles(files) == Cardinality({p \in DOMAIN files : DOMAIN files[p] # {}})

CountComments(files) ==
    SumOver({p \in DOMAIN files : DOMAIN files[p] # {}},
            [p \in DOMAIN files |->
                SumOver(DOMAIN files[p],
                        [k \in DOMAIN files[p] |-> Len(files[p][k].comments)])])

\* updateMetadata adding to the counters it finds instead of starting its
\* count at zero
updateMetadata_Accumulating(d) ==
    [d EXCEPT !.metadata.totalFiles = d.metadata.totalFiles + CountFiles(d.files),
              !.metadata.totalComments =
                  d.metadata.totalComments + CountComments(d.files)]

\* updateMetadata
updateMetadata(d) ==
    [d EXCEPT !.metadata.totalFiles = CountFiles(d.files),
              !.metadata.totalComments = CountComments(d.files)]


----------------------------------------------------------------------------
(* LLMRouter.parseComments: strings are sequences of characters *)

Newline == "\n"

\* the characters String.prototype.trim removes
Whitespace == {" ", "\n", "\t", "\r"}

\* characters of source texts and of raw responses
CodeChars == {"a", " ", Newline}
ResponseChars == {"A", "B", " ", Newline}

CodeTexts == SeqsUpTo(CodeChars, MaxCodeLen)
ResponseTexts == SeqsUpTo(ResponseChars, MaxRespLen)

\* '// Code line' (llmRouter.ts:248)
Placeholder == <<"/", "/", " ", "C", "o", "d", "e", " ", "l", "i", "n", "e">>

\* s.split('\n'): the pieces between the separators (one piece more than
\* there are separators; the empty string gives one empty piece)
RECURSIVE SplitFrom(_, _, _)
SplitFrom(s, i, piece) ==
    IF i > Len(s) THEN <<piece>>
    ELSE IF s[i] = Newline THEN <<piece>> \o SplitFrom(s, i + 1, <<>>)
    ELSE SplitFrom(s, i + 1, Append(piece, s[i]))

Split(s) == SplitFrom(s, 1, <<>>)

\* s.trim()
RECURSIVE TrimStart(_)
TrimStart(s) ==
    IF s # <<>> /\ Head(s) \in Whitespace THEN TrimStart(Tail(s)) ELSE s

RECURSIVE TrimEnd(_)
TrimEnd(s) ==
    IF s # <<>> /\ s[Len(s)] \in Whitespace THEN TrimEnd(SubSeq(s, 1, Len(s) - 1))
    ELSE s

Trim(s) == TrimEnd(TrimStart(s))

\* lines.filter(line => line.trim().length > 0)
RECURSIVE FilterNonBlank(_)
FilterNonBlank(lines) ==
    IF lines = <<>> THEN <<>>
    ELSE IF Len(Trim(Head(lines))) > 0
         THEN <<Head(lines)>> \o FilterNonBlank(Tail(lines))
         ELSE FilterNonBlank(Tail(lines))

\* the loop of parseComments (llmRouter.ts:236-250), from index i on
RECURSIVE ParseLoop(_, _, _, _)
ParseLoop(codeLines, commentLines, i, commentIndex) ==
    IF i > Len(codeLines) THEN <<>>
    ELSE IF Len(Trim(codeLines[i])) = 0
         THEN <<<<>>>> \o ParseLoop(codeLines, commentLines, i + 1, commentIndex)
    ELSE IF commentIndex <= Len(commentLines)
         THEN <<Trim(commentLines[commentIndex])>>
              \o ParseLoop(codeLines, commentLines, i + 1, commentIndex + 1)
    ELSE <<Placeholder>> \o ParseLoop(codeLines, commentLines, i + 1, commentIndex)

\* the loop without its first branch: a blank source line gets no comment
RECURSIVE ParseLoopSkippingBlank(_, _, _, _)
ParseLoopSkippingBlank(codeLines, commentLines, i, commentIndex) ==
    IF i > Len(codeLines) THEN <<>>
    ELSE IF Len(Trim(codeLines[i])) = 0
         THEN ParseLoopSkippingBlank(codeLines, commentLines, i + 1, commentIndex)
    ELSE IF commentIndex <= Len(commentLines)
         THEN <<Trim(commentLines[commentIndex])>>
              \o ParseLoopSkippingBlank(codeLines, commentLines, i + 1, commentIndex + 1)
    ELSE <<Placeholder>>
         \o ParseLoopSkippingBlank(codeLines, commentLines, i + 1, commentIndex)

parseComments_SkippingBlank(content, originalCode) ==
    ParseLoopSkippingBlank(Split(originalCode), FilterNonBlank(Split(content)), 1, 1)

\* the loop indexing the response by the source line number, not by
\* commentIndex
RECURSIVE ParseLoopByLine(_, _, _)
ParseLoopByLine(codeLines, commentLines, i) ==
    IF i > Len(codeLines) THEN <<>>
    ELSE IF Len(Trim(codeLines[i])) = 0
         THEN <<<<>>>> \o ParseLoopByLine(codeLines, commentLines, i + 1)
    ELSE IF i <= Len(commentLines)
         THEN <<Trim(commentLines[i])>> \o ParseLoopByLine(codeLines, commentLines, i + 1)
    ELSE <<Placeholder>> \o ParseLoopByLine(codeLines, commentLines, i + 1)

parseComments_ByLineNumber(content, originalCode) ==
    ParseLoopByLine(Split(originalCode), FilterNonBlank(Split(content)), 1)

\* parseComments
parseComments(content, originalCode) ==
    ParseLoop(Split(originalCode), FilterNonBlank(Split(content)), 1, 1)

\* a call of parseComments: before (done = FALSE) and after
ParseCall(code, content, done, result) ==
    [code |-> code, content |-> content, done |-> done, result |-> result]

ParseIdle == ParseCall(<<>>, <<>>, FALSE, <<>>)

----------------------------------------------------------------------------
(* Documents as JSON.parse returns them, and the storage file *)

\* StoredComment
StoredComment(comments, content, t, model, language, abstractionLevel) ==
    [comments |-> comments, fileHash |-> calculateFileHash(content),
     timestamp |-> t, model |-> model, language |-> language,
     abstractionLevel |-> abstractionLevel]

NoMetadata == [createdAt |-> 0, updatedAt |-> 0, totalFiles |-> 0, totalComments |-> 0]

\* A parsed JSON value: kind is "object", "null", "scalar" or "array"; an
\* object may lack version (Undefined), metadata or files.
RawDoc(kind, version, hasMetadata, metadata, hasFiles, files) ==
    [kind |-> kind, version |-> version,
     hasMetadata |-> hasMetadata,
     metadata |-> IF hasMetadata THEN metadata ELSE NoMetadata,
     hasFiles |-> hasFiles,
     files |-> IF hasFiles THEN files ELSE EmptyMap]

NonObject(kind) == RawDoc(kind, Undefined, FALSE, NoMetadata, FALSE, EmptyMap)

\* JSON.stringify of the in-memory document, read back by JSON.parse
ToJson(d) == RawDoc("object", d.version, TRUE, d.metadata, TRUE, d.files)

\* files maps of documents written by an earlier session (keys relative to
\* the workspace root); the last holds a path whose object has no entry
SampleFiles ==
    { EmptyMap,
      (<<"a.ts">> :> ("level_5" :>
            StoredComment(<<"x">>, "c1", 0, "martian", "typescript", 5))),
      (<<"a.ts">> :> (("level_1" :>
            StoredComment(<<"y">>, "c1", 0, "martian", "typescript", 1))
         @@ ("level_5" :>
            StoredComment(<<"x">>, "c2", 1, "martian", "typescript", 5))))
      @@ (<<"b.ts">> :> ("level_5" :>
            StoredComment(<<"x">>, "c2", 0, "unknown", "typescript", 5))),
      (<<"a.ts">> :> EmptyMap) }

\* the metadata the store itself writes for a files map
CountedMetadata(files) ==
    [createdAt |-> 0, updatedAt |-> 0,
     totalFiles |-> CountFiles(files), totalComments |-> CountComments(files)]

\* object documents: every combination of version absent/old/current,
\* metadata absent/present, files absent/present
ObjectDocs ==
    { RawDoc("object", v, hm, CountedMetadata(IF hf THEN f ELSE EmptyMap), hf, f) :
        v \in {Undefined, OldVersion, STORAGE_VERSION},
        hm \in BOOLEAN, hf \in BOOLEAN, f \in SampleFiles }

\* documents of type CommentStorageData (all three members present)
TypedDocs == {r \in ObjectDocs : r.version # Undefined /\ r.hasMetadata /\ r.hasFiles}

\* the storage file: missing, unreadable, not JSON, or a JSON value
DiskFile(state, value) == [state |-> state, value |-> value]

DiskMissing == DiskFile("missing", NonObject("null"))
DiskUnreadable == DiskFile("unreadable", NonObject("null"))
DiskBadJson == DiskFile("badjson", NonObject("null"))

InitialDisks ==
    {DiskMissing, DiskUnreadable, DiskBadJson}
    \cup {DiskFile("json", NonObject(k)) : k \in {"null", "scalar", "array"}}
    \cup {DiskFile("json", r) : r \in ObjectDocs}

\* the files the runs of the store's operations start from: no file, and a
\* file of two paths and three entries that lacks the metadata member
StoreDisks ==
    {DiskMissing}
    \cup {DiskFile("json", RawDoc("object", STORAGE_VERSION, FALSE, NoMetadata, TRUE, f)) :
            f \in {g \in SampleFiles : Cardinality(DOMAIN g) = 2}}

\* fs.writeFileSync: it succeeds, or throws leaving the file as it was
WriteOutcomes == {"ok", "failed"}

----------------------------------------------------------------------------
(* CommentStorage: load, migrate, save *)

\* validateAndMigrate on the value just parsed or imported; threw = a
\* TypeError left the method (data is then as far as the method got)
validateAndMigrate(raw, t) ==
    LET migrate == raw.version = Undefined \/ raw.version # STORAGE_VERSION
        \* lines 97-102: this.data.version, this.data.metadata.updatedAt
        throws == \/ raw.kind # "object"
                  \/ migrate /\ ~raw.hasMetadata
        r1 == IF migrate /\ raw.hasMetadata
              THEN [raw EXCEPT !.version = STORAGE_VERSION,
                               !.metadata.updatedAt = t]
              ELSE raw
        \* lines 105-112
        r2 == IF ~r1.hasMetadata
              THEN [r1 EXCEPT !.hasMetadata = TRUE,
                              !.metadata = [createdAt |-> t, updatedAt |-> t,
                                            totalFiles |-> Cardinality(DOMAIN r1.files),
                                            totalComments |-> 0]]
              ELSE r1
        \* lines 114-116
        r3 == IF ~r2.hasFiles THEN [r2 EXCEPT !.hasFiles = TRUE, !.files = EmptyMap]
              ELSE r2
    IN  [threw |-> throws,
         data  |-> [version |-> r3.version, metadata |-> r3.metadata, files |-> r3.files]]

\* saveStorage, in memory: metadata.updatedAt = Date.now()
saveStorage(d, t) == [d EXCEPT !.metadata.updatedAt = t]

\* saveStorage without its catch: the write's error reaches the caller
saveStorageThrows_Uncaught(outcome) == outcome = "failed"

\* saveStorage, lines 123-129: whether an error leaves the method; the try
\* block holds the whole body and the catch only logs
saveStorageThrows(outcome) == FALSE

\* saveStorage, on disk: the file after fs.writeFileSync of the document d
DiskAfterSave(before, d, outcome) ==
    IF outcome = "ok" THEN DiskFile("json", ToJson(d)) ELSE before

\* only the read and the parse are guarded: a value that validateAndMigrate
\* rejects is kept as far as it was migrated
LoadThrows_ParseOnly(file, t) == file.state \in {"unreadable", "badjson"}

\* initializeStorage, lines 57-62: an error is raised inside the try block
\* (readFileSync, JSON.parse or validateAndMigrate throws)
LoadThrows(file, t) ==
    \/ file.state \in {"unreadable", "badjson"}
    \/ file.state = "json" /\ validateAndMigrate(file.value, t).threw

\* initializeStorage saves only when it created an empty document: the file
\* is missing (lines 63-67) or the try block threw (lines 68-73)
LoadSaves(file, t) == file.state = "missing" \/ LoadThrows(file, t)

\* initializeStorage, in memory: the document the constructor ends with
LoadedData(file, t) ==
    IF LoadSaves(file, t)
    THEN saveStorage(createEmptyStorage(t), t)
    ELSE validateAndMigrate(file.value, t).data

----------------------------------------------------------------------------
(* CommentStorage: the public operations, as functions of the document *)

\* hasComments without the comparison of hashes: any entry counts as valid
hasComments_AnyEntry(d, folders, filePath, abstractionLevel, fileContent) ==
    LET relativePath == getRelativeFilePath(folders, filePath)
        cacheKey == generateCacheKey(filePath, abstractionLevel)
    IN  relativePath \in DOMAIN d.files /\ cacheKey \in DOMAIN d.files[relativePath]

\* hasComments
hasComments(d, folders, filePath, abstractionLevel, fileContent) ==
    LET relativePath == getRelativeFilePath(folders, filePath)
        cacheKey == generateCacheKey(filePath, abstractionLevel)
    IN  IF relativePath \notin DOMAIN d.files
           \/ cacheKey \notin DOMAIN d.files[relativePath]
        THEN FALSE
        ELSE d.files[relativePath][cacheKey].fileHash = calculateFileHash(fileContent)

\* getComments: null, or the stored comment sequence
getComments(d, folders, filePath, abstractionLevel) ==
    LET relativePath == getRelativeFilePath(folders, filePath)
        cacheKey == generateCacheKey(filePath, abstractionLevel)
    IN  IF relativePath \notin DOMAIN d.files
           \/ cacheKey \notin DOMAIN d.files[relativePath]
        THEN [isNull |-> TRUE, comments |-> <<>>]
        ELSE [isNull |-> FALSE, comments |-> d.files[relativePath][cacheKey].comments]

\* the path's object is replaced by one holding the new entry alone
PutEntry_ReplacingFile(files, relativePath, cacheKey, entry) ==
    Put(files, relativePath, Put(EmptyMap, cacheKey, entry))

\* the entry is written only when the key is new: an existing entry is kept
PutEntry_KeepExisting(files, relativePath, cacheKey, entry) ==
    LET fileData == IF relativePath \in DOMAIN files THEN files[relativePath]
                    ELSE EmptyMap
    IN  IF cacheKey \in DOMAIN fileData THEN files
        ELSE Put(files, relativePath, Put(fileData, cacheKey, entry))

\* storeComments, lines 201-218: the files map with the entry written
PutEntry(files, relativePath, cacheKey, entry) ==
    LET fileData == IF relativePath \in DOMAIN files THEN files[relativePath]
                    ELSE EmptyMap
    IN  Put(files, relativePath, Put(fileData, cacheKey, entry))

\* storeComments, in memory
storeComments(d, folders, filePath, level, comments, fileContent, model, language, t) ==
    LET relativePath == getRelativeFilePath(folders, filePath)
        cacheKey == generateCacheKey(filePath, level)
        entry == StoredComment(comments, fileContent, t, model, language, level)
        stored == [d EXCEPT !.files = PutEntry(d.files, relativePath, cacheKey, entry)]
    IN  saveStorage(updateMetadata(stored), t)

\* removeFile without its call of updateMetadata
removeFile_NoRecount(d, folders, filePath, t) ==
    LET relativePath == getRelativeFilePath(folders, filePath)
    IN  IF relativePath \in DOMAIN d.files
        THEN [changed |-> TRUE,
              data |-> saveStorage([d EXCEPT !.files = Del(d.files, relativePath)], t)]
        ELSE [changed |-> FALSE, data |-> d]

\* removeFile, in memory; changed = the path had an entry (else nothing is saved)
removeFile(d, folders, filePath, t) ==
    LET relativePath == getRelativeFilePath(folders, filePath)
    IN  IF relativePath \in DOMAIN d.files
        THEN [changed |-> TRUE,
              data |-> saveStorage(updateMetadata(
                          [d EXCEPT !.files = Del(d.files, relativePath)]), t)]
        ELSE [changed |-> FALSE, data |-> d]

\* removeComments without lines 275-277: a path emptied of its last entry
\* stays in the files map
removeComments_KeepEmptyPath(d, folders, filePath, abstractionLevel, t) ==
    LET relativePath == getRelativeFilePath(folders, filePath)
        cacheKey == generateCacheKey(filePath, abstractionLevel)
    IN  IF relativePath \in DOMAIN d.files /\ cacheKey \in DOMAIN d.files[relativePath]
        THEN LET rest == Del(d.files[relativePath], cacheKey)
                 files == Put(d.files, relativePath, rest)
             IN  [changed |-> TRUE,
                  data |-> saveStorage(updateMetadata([d EXCEPT !.files = files]), t)]
        ELSE [changed |-> FALSE, data |-> d]

\* removeComments, in memory
removeComments(d, folders, filePath, abstractionLevel, t) ==
    LET relativePath == getRelativeFilePath(folders, filePath)
        cacheKey == generateCacheKey(filePath, abstractionLevel)
    IN  IF relativePath \in DOMAIN d.files /\ cacheKey \in DOMAIN d.files[relativePath]
        THEN LET rest == Del(d.files[relativePath], cacheKey)
                 files == IF DOMAIN rest = {} THEN Del(d.files, relativePath)
                          ELSE Put(d.files, relativePath, rest)
             IN  [changed |-> TRUE,
                  data |-> saveStorage(updateMetadata([d EXCEPT !.files = files]), t)]
        ELSE [changed |-> FALSE, data |-> d]

\* clearAll without updateMetadata: the counters keep their old values
clearAll_KeepCounters(d, t) == saveStorage([d EXCEPT !.files = EmptyMap], t)

\* clearAll, in memory
clearAll(d, t) == saveStorage(updateMetadata([d EXCEPT !.files = EmptyMap]), t)

\* importData, in memory (raw is of type CommentStorageData, so
\* validateAndMigrate does not throw)
importData(raw, t) == saveStorage(validateAndMigrate(raw, t).data, t)

\* getStats (storageSize left out)
getStats(d) ==
    [totalFiles |-> d.metadata.totalFiles,
     totalComments |-> d.metadata.totalComments,
     createdAt |-> d.metadata.createdAt,
     updatedAt |-> d.metadata.updatedAt,
     version |-> d.version]

\* parseInt(key.replace('level_', '')): the level a cache key was made from
LevelOfKey(key) == CHOOSE l \in Levels : generateCacheKey(<<>>, l) = key

\* getStoredFiles, lines 336-356: the row pushed for one key of data.files
\* (lastUpdated starts at 0 and takes every greater timestamp)
StoredFileRow(files, filePath) ==
    LET fileData == files[filePath]
        stamps == {fileData[k].timestamp : k \in DOMAIN fileData} \cup {0}
    IN  [filePath |-> filePath,
         levels |-> {LevelOfKey(k) : k \in DOMAIN fileData},
         lastUpdated |-> CHOOSE m \in stamps : \A t \in stamps : t <= m,
         totalComments |-> SumOver(DOMAIN fileData,
                              [k \in DOMAIN fileData |-> Len(fileData[k].comments)])]

\* result.sort((a, b) => b.lastUpdated - a.lastUpdated): greatest first (rows
\* of equal lastUpdated keep the order of the keys, which the map does not
\* record)
RECURSIVE SortByLastUpdated(_)
SortByLastUpdated(rows) ==
    IF rows = {} THEN <<>>
    ELSE LET first == CHOOSE r \in rows : \A q \in rows : q.lastUpdated <= r.lastUpdated
         IN  <<first>> \o SortByLastUpdated(rows \ {first})

\* getStoredFiles: one row for every key of data.files
getStoredFiles(d) ==
    SortByLastUpdated({StoredFileRow(d.files, p) : p \in DOMAIN d.files})

----------------------------------------------------------------------------
(* The store as a state machine *)

\* the record of an operation: its name, arguments and outcome
\* (write: the outcome of fs.writeFileSync, "none" when nothing was saved;
\* threw: an exception reached the caller; loaded: the file or document read)
OpRecord(op, filePath, level, comments, content, write, threw, loaded) ==
    [op |-> op, filePath |-> filePath, level |-> level, comments |-> comments,
     content |-> content, write |-> write, threw |-> threw, loaded |-> loaded]

\* the other parts at rest: no parse call, no manager
GenIdle ==
    /\ fsFiles = EmptyMap
    /\ storage = FALSE
    /\ apiKey = FALSE
    /\ commentCache = EmptyMap
    /\ hashCache = EmptyMap
    /\ calls = <<>>
    /\ resolved = <<>>

\* the panel when there is none
NoPanel == [exists |-> FALSE, visible |-> FALSE, html |-> "none"]

\* the auto-panel extension not activated
UiIdle ==
    /\ clock = 0
    /\ active = FALSE
    /\ debounceTimer = 0
    /\ timers = {}
    /\ triggers = <<>>
    /\ runs = <<>>
    /\ currentPanel = NoPanel
    /\ enabled = TRUE
    /\ updates = [awaiting |-> 0, failed |-> 0]
    /\ listeners = [documentChange |-> 0, configChange |-> 0]

\* no path: undefined where a file path is expected
NoPath == <<>>

\* CommentManager's panel fields as constructed; disposed: the panel that
\* currentPanel refers to has been closed; closedRenders: the user actions
\* that assigned webview.html of a closed panel, at their start or finish
ManagerIdle ==
    [currentPanel |-> FALSE, html |-> [kind |-> "none", level |-> 0, call |-> 0],
     currentFilePath |-> NoPath, currentLevel |-> 5,
     originalFilePath |-> NoPath, cursorSync |-> 0,
     disposed |-> FALSE, closedRenders |-> {}]

\* the auto-panel's summaries at rest
SumIdle ==
    /\ summaryDatabase = EmptyMap
    /\ currentAbstractionLevel = 3
    /\ summaries = <<>>
    /\ documentText = ""

\* no command has run
CmdIdle ==
    /\ activeTextEditor = NoPath
    /\ manager = ManagerIdle
    /\ commands = <<>>
    /\ messages = <<>>

\* Init: the constructor has run createEmptyStorage (line 48) and is about to
\* run initializeStorage on whatever file an earlier session left
InitOn(disks) ==
    /\ now = 0
    /\ data = createEmptyStorage(0)
    /\ disk \in disks
    /\ workspaceFolders = <<WorkspaceRoot>>
    /\ ops = 0
    /\ last = OpRecord("new", <<>>, 0, <<>>, "", "none", FALSE, DiskMissing)
    /\ parse = ParseIdle
    /\ GenIdle
    /\ UiIdle
    /\ SumIdle
    /\ CmdIdle

InitStore == InitOn(StoreDisks)

InitLoad == InitOn(InitialDisks)

Constructed == last.op # "new"

\* the constructor's initializeStorage; later, the constructor of a new session
InitializeStorage(outcome) ==
    /\ ops < MaxOps
    /\ data' = LoadedData(disk, now)
    /\ disk' = IF LoadSaves(disk, now) THEN DiskAfterSave(disk, data', outcome)
               ELSE disk
    /\ last' = OpRecord("initializeStorage", <<>>, 0, <<>>, "",
                        IF LoadSaves(disk, now) THEN outcome ELSE "none",
                        LoadSaves(disk, now) /\ saveStorageThrows(outcome), disk)
    /\ ops' = ops + 1
    /\ UNCHANGED <<workspaceFolders, now, nonStoreVars>>

StoreComments(filePath, level, comments, content, model, language, outcome) ==
    /\ Constructed /\ ops < MaxOps
    /\ data' = storeComments(data, workspaceFolders, filePath, level, comments,
                             content, model, language, now)
    /\ disk' = DiskAfterSave(disk, data', outcome)
    /\ last' = OpRecord("storeComments", filePath, level, comments, content,
                        outcome, saveStorageThrows(outcome), DiskMissing)
    /\ ops' = ops + 1
    /\ UNCHANGED <<workspaceFolders, now, nonStoreVars>>

RemoveFile(filePath, outcome) ==
    /\ Constructed /\ ops < MaxOps
    /\ LET r == removeFile(data, workspaceFolders, filePath, now)
       IN  /\ data' = r.data
           /\ disk' = IF r.changed THEN DiskAfterSave(disk, r.data, outcome) ELSE disk
           /\ last' = OpRecord("removeFile", filePath, 0, <<>>, "",
                               IF r.changed THEN outcome ELSE "none",
                               r.changed /\ saveStorageThrows(outcome), DiskMissing)
    /\ ops' = ops + 1
    /\ UNCHANGED <<workspaceFolders, now, nonStoreVars>>

RemoveComments(filePath, level, outcome) ==
    /\ Constructed /\ ops < MaxOps
    /\ LET r == removeComments(data, workspaceFolders, filePath, level, now)
       IN  /\ data' = r.data
           /\ disk' = IF r.changed THEN DiskAfterSave(disk, r.data, outcome) ELSE disk
           /\ last' = OpRecord("removeComments", filePath, level, <<>>, "",
                               IF r.changed THEN outcome ELSE "none",
                               r.changed /\ saveStorageThrows(outcome), DiskMissing)
    /\ ops' = ops + 1
    /\ UNCHANGED <<workspaceFolders, now, nonStoreVars>>

ClearAll(outcome) ==
    /\ Constructed /\ ops < MaxOps
    /\ data' = clearAll(data, now)
    /\ disk' = DiskAfterSave(disk, data', outcome)
    /\ last' = OpRecord("clearAll", <<>>, 0, <<>>, "", outcome,
                        saveStorageThrows(outcome), DiskMissing)
    /\ ops' = ops + 1
    /\ UNCHANGED <<workspaceFolders, now, nonStoreVars>>

ImportData(raw, outcome) ==
    /\ Constructed /\ ops < MaxOps
    /\ data' = importData(raw, now)
    /\ disk' = DiskAfterSave(disk, data', outcome)
    /\ last' = OpRecord("importData", <<>>, 0, <<>>, "", outcome,
                        validateAndMigrate(raw, now).threw \/ saveStorageThrows(outcome),
                        DiskFile("json", raw))
    /\ ops' = ops + 1
    /\ UNCHANGED <<workspaceFolders, now, nonStoreVars>>

\* time passes between operations
Tick ==
    /\ ops < MaxOps
    /\ now < MaxClock
    /\ now' = now + 1
    /\ UNCHANGED <<data, disk, workspaceFolders, ops, last, nonStoreVars>>

NextStore ==
    \/ \E o \in WriteOutcomes : InitializeStorage(o)
    \/ \E f \in FilePaths, l \in Levels, cs \in CommentSeqs, c \in Contents,
          m \in Models, g \in Languages, o \in WriteOutcomes :
            StoreComments(f, l, cs, c, m, g, o)
    \/ \E f \in FilePaths, o \in WriteOutcomes : RemoveFile(f, o)
    \/ \E f \in FilePaths, l \in Levels, o \in WriteOutcomes : RemoveComments(f, l, o)
    \/ \E o \in WriteOutcomes : ClearAll(o)
    \/ \E r \in TypedDocs, o \in WriteOutcomes : ImportData(r, o)
    \/ Tick

\* the operations of the store, on a document loaded from one of StoreDisks
SpecStore == InitStore /\ [][NextStore]_vars

\* loading and importing documents of every shape
NextLoad ==
    \/ \E o \in WriteOutcomes : InitializeStorage(o)
    \/ \E r \in TypedDocs, o \in WriteOutcomes : ImportData(r, o)
    \/ Tick

SpecLoad == InitLoad /\ [][NextLoad]_vars

\* the store as its constructor leaves it where no storage file existed:
\* the empty document, saved
InitPut ==
    /\ now = 0
    /\ data = LoadedData(DiskMissing, 0)
    /\ disk = DiskAfterSave(DiskMissing, data, "ok")
    /\ workspaceFolders = <<WorkspaceRoot>>
    /\ ops = 0
    /\ last = OpRecord("initializeStorage", <<>>, 0, <<>>, "", "ok", FALSE, DiskMissing)
    /\ parse = ParseIdle
    /\ GenIdle
    /\ UiIdle
    /\ SumIdle
    /\ CmdIdle

NextPut ==
    \/ \E f \in FilePaths, l \in Levels, cs \in CommentSeqs, c \in Contents,
          m \in Models, g \in Languages, o \in WriteOutcomes :
            StoreComments(f, l, cs, c, m, g, o)
    \/ Tick

\* storeComments called again and again on a fresh store
SpecPut == InitPut /\ [][NextPut]_vars

\* a second workspace root, and the lists vscode.workspace.workspaceFolders
\* can hold: none, the root alone, another folder ahead of it
OtherRoot == <<"lib">>
FolderLists == {<<>>, <<WorkspaceRoot>>, <<OtherRoot, WorkspaceRoot>>}

\* the editor's workspace folder list changes while the store lives:
\* getRelativeFilePath reads the list anew on every call (line 150)
ChangeWorkspaceFolders(folders) ==
    /\ Constructed
    /\ folders # workspaceFolders
    /\ workspaceFolders' = folders
    /\ UNCHANGED <<data, disk, now, ops, last, nonStoreVars>>

InitFolders == InitOn({DiskMissing})

NextFolders ==
    \/ \E o \in WriteOutcomes : InitializeStorage(o)
    \/ \E f \in FilePaths, l \in Levels, cs \in CommentSeqs, c \in Contents,
          m \in Models, g \in Languages, o \in WriteOutcomes :
            StoreComments(f, l, cs, c, m, g, o)
    \/ \E f \in FilePaths, o \in WriteOutcomes : RemoveFile(f, o)
    \/ \E f \in FilePaths, l \in Levels, o \in WriteOutcomes : RemoveComments(f, l, o)
    \/ \E folders \in FolderLists : ChangeWorkspaceFolders(folders)

\* the store in a workspace whose folder list changes
SpecFolders == InitFolders /\ [][NextFolders]_vars

----------------------------------------------------------------------------
(* parseComments as a state machine: one call on bounded texts *)

\* the store at rest: no store was constructed
StoreIdle ==
    /\ now = 0
    /\ data = createEmptyStorage(0)
    /\ disk = DiskMissing
    /\ workspaceFolders = <<>>
    /\ ops = 0
    /\ last = OpRecord("new", <<>>, 0, <<>>, "", "none", FALSE, DiskMissing)

InitParse ==
    /\ parse \in {ParseCall(c, r, FALSE, <<>>) : c \in CodeTexts, r \in ResponseTexts}
    /\ StoreIdle
    /\ GenIdle
    /\ UiIdle
    /\ SumIdle
    /\ CmdIdle

ParseComments ==
    /\ ~parse.done
    /\ parse' = [parse EXCEPT !.done = TRUE,
                              !.result = parseComments(parse.content, parse.code)]
    /\ UNCHANGED <<storeVars, genVars, uiVars, cmdVars, sumVars>>

NextParse == ParseComments

SpecParse == InitParse /\ [][NextParse]_vars

----------------------------------------------------------------------------
(* CommentManager.generateCommentsForFile and LLMRouter.generateComments *)

\* the source files the requests are about, and what they may hold
GenPaths == {<<"ws", "a.ts">>}
GenContents == {<<"a">>, <<"a", Newline, "a">>}

\* a file on disk: absent, or present with a content
SourceFile(exists, content) == [exists |-> exists, content |-> content]
SourceFiles == {SourceFile(FALSE, <<>>)} \cup {SourceFile(TRUE, c) : c \in GenContents}

\* what the HTTP call of generateComments comes back with: an error (axios
\* throws), a body without choices, or a first choice with a text
HttpResult(kind, content) == [kind |-> kind, content |-> content]
RawResponses == {<<>>, <<"A">>, <<"B", Newline, "A">>}
HttpResults ==
    {HttpResult("error", <<>>), HttpResult("nochoices", <<>>)}
    \cup {HttpResult("ok", r) : r \in RawResponses}

\* path.basename and detectLanguage, on the file names of the model
basename(filePath) == filePath[Len(filePath)]

detectLanguage(fileName) == IF fileName = "a.ts" THEN "typescript" ELSE "text"

\* CommentManager.calculateHash: md5, as the store's
calculateHash(content) == <<"md5", content>>

\* `${filePath}:level${abstractionLevel}`
legacyCacheKey(filePath, abstractionLevel) == <<filePath, abstractionLevel>>

\* comments.join('\n')
RECURSIVE Join(_)
Join(lines) ==
    IF lines = <<>> THEN <<>>
    ELSE IF Len(lines) = 1 THEN lines[1]
    ELSE lines[1] \o <<Newline>> \o Join(Tail(lines))

\* a CommentResponse
CommentResponse(comments, model, success, error) ==
    [comments |-> comments, model |-> model, success |-> success, error |-> error]

\* generateComments when the key is missing: no HTTP request is made
NoApiKeyResponse == CommentResponse(<<>>, "martian", FALSE, "API key not found for martian")

\* generateComments whose catch block returns what it has without a message
generateComments_SilentFailure(abstractionLevel, code, http) ==
    IF http.kind = "error"
    THEN CommentResponse(<<>>, "unknown", FALSE, "")
    ELSE IF http.kind = "nochoices"
    THEN CommentResponse(<<>>, "martian", FALSE, "No response choices from API")
    ELSE IF abstractionLevel = 5
    THEN CommentResponse(parseComments(http.content, code), "martian", TRUE, "")
    ELSE CommentResponse(<<Trim(http.content)>>, "martian", TRUE, "")

\* generateComments returning at level 5 the lines of the response as they
\* came, not matched against the lines of the code
generateComments_Unreconciled(abstractionLevel, code, http) ==
    IF http.kind = "error"
    THEN CommentResponse(<<>>, "unknown", FALSE, "request failed")
    ELSE IF http.kind = "nochoices"
    THEN CommentResponse(<<>>, "martian", FALSE, "No response choices from API")
    ELSE IF abstractionLevel = 5
    THEN CommentResponse(FilterNonBlank(Split(http.content)), "martian", TRUE, "")
    ELSE CommentResponse(<<Trim(http.content)>>, "martian", TRUE, "")

\* generateComments once the HTTP call is back (llmRouter.ts:122-166)
generateComments(abstractionLevel, code, http) ==
    IF http.kind = "error"
    THEN CommentResponse(<<>>, "unknown", FALSE, "request failed")
    ELSE IF http.kind = "nochoices"
    THEN CommentResponse(<<>>, "martian", FALSE, "No response choices from API")
    ELSE IF abstractionLevel = 5
    THEN CommentResponse(parseComments(http.content, code), "martian", TRUE, "")
    ELSE CommentResponse(<<Trim(http.content)>>, "martian", TRUE, "")

\* one invocation of generateCommentsForFile: its arguments, the content it
\* read, where it stands, what it returned, the response its generation call
\* got, the message of the error it raised, where it wrote, and the
\* invocations that were awaiting their generation call when it started
Call(filePath, level, content, status, source, result, response, error, wrote, pending) ==
    [filePath |-> filePath, level |-> level, content |-> content,
     status |-> status, source |-> source, result |-> result,
     response |-> response, error |-> error, wrote |-> wrote, pending |-> pending]

\* every failure raised with the same message, whatever the collaborator said
ThrownMessage_Generic(response) == "Failed to generate comments"

\* response.error || 'Failed to generate comments' (commentManager.ts:828)
ThrownMessage(response) ==
    IF response.error # "" THEN response.error ELSE "Failed to generate comments"

\* no response (yet)
NoResponse == CommentResponse(<<>>, "", FALSE, "")

Awaiting(cs) == {i \in 1..Len(cs) : cs[i].status = "awaiting"}

\* the legacy cache holds a usable text for the key and the content's hash
legacyHit(filePath, level, content) ==
    LET cacheKey == legacyCacheKey(filePath, level)
    IN  /\ cacheKey \in DOMAIN hashCache
        /\ hashCache[cacheKey] = calculateHash(content)
        /\ cacheKey \in DOMAIN commentCache
        /\ commentCache[cacheKey] # <<>>

\* generateCommentsForFile up to its await (commentManager.ts:781-825)
StartCall(filePath, level) ==
    LET file == fsFiles[filePath]
        content == file.content
        pending == Awaiting(calls)
    IN  IF ~file.exists
        THEN Call(filePath, level, <<>>, "threw", "none", <<>>, NoResponse,
                  "File not found", "none", pending)
        ELSE IF /\ storage
                /\ hasComments(data, workspaceFolders, filePath, level, content)
                /\ ~getComments(data, workspaceFolders, filePath, level).isNull
        THEN Call(filePath, level, content, "returned", "stored",
                  getComments(data, workspaceFolders, filePath, level).comments,
                  NoResponse, "", "none", pending)
        ELSE IF legacyHit(filePath, level, content)
        THEN Call(filePath, level, content, "returned", "legacy",
                  Split(commentCache[legacyCacheKey(filePath, level)]),
                  NoResponse, "", "none", pending)
        ELSE IF ~apiKey
        THEN Call(filePath, level, content, "threw", "none", <<>>,
                  NoApiKeyResponse, ThrownMessage(NoApiKeyResponse), "none", pending)
        ELSE Call(filePath, level, content, "awaiting", "generated", <<>>,
                  NoResponse, "", "none", pending)


\* Init: the manager is constructed, with a store over a fresh workspace
\* when a workspace folder is open and without one otherwise
InitGen ==
    /\ now = 0
    /\ storage \in BOOLEAN
    /\ apiKey \in BOOLEAN
    /\ fsFiles \in [GenPaths -> SourceFiles]
    /\ workspaceFolders = IF storage THEN <<WorkspaceRoot>> ELSE <<>>
    /\ data = IF storage THEN LoadedData(DiskMissing, 0) ELSE createEmptyStorage(0)
    /\ disk = IF storage THEN DiskAfterSave(DiskMissing, LoadedData(DiskMissing, 0), "ok")
              ELSE DiskMissing
    /\ ops = 0
    /\ last = OpRecord("new", <<>>, 0, <<>>, "", "none", FALSE, DiskMissing)
    /\ parse = ParseIdle
    /\ commentCache = EmptyMap
    /\ hashCache = EmptyMap
    /\ calls = <<>>
    /\ resolved = <<>>
    /\ UiIdle
    /\ SumIdle
    /\ CmdIdle

\* generateCommentsForFile is invoked and runs to its return, its throw or
\* its await
GenerateCommentsForFile(filePath, level) ==
    /\ Len(calls) < MaxCalls
    /\ calls' = Append(calls, StartCall(filePath, level))
    /\ UNCHANGED <<storeVars, parseVars, sumVars, cmdVars, uiVars, fsFiles, storage, apiKey,
                   commentCache, hashCache, resolved>>

\* the file is read again once the generation call is back, and that text is
\* what the fingerprint is made from
StoredContent_ReadAgain(c, files) == files[c.filePath].content

\* the fileContent handed to storeComments (commentManager.ts:836): the
\* local read at line 789, before the request was made
StoredContent(c, files) == c.content

\* the generation call of invocation i resolves and the invocation runs to
\* its end (commentManager.ts:825-848)
ResolveCall(i, http, outcome) ==
    /\ i \in Awaiting(calls)
    /\ LET c == calls[i]
           response == generateComments(c.level, c.content, http)
           language == detectLanguage(basename(c.filePath))
           cacheKey == legacyCacheKey(c.filePath, c.level)
           stored == storeComments(data, workspaceFolders, c.filePath, c.level,
                                   response.comments, StoredContent(c, fsFiles),
                                   response.model, language, now)
       IN  /\ resolved' = Append(resolved, i)
           /\ IF ~response.success
              THEN /\ calls' = [calls EXCEPT ![i].status = "threw",
                                             ![i].response = response,
                                             ![i].error = ThrownMessage(response)]
                   /\ UNCHANGED <<data, disk, commentCache, hashCache>>
              ELSE IF storage
              THEN /\ data' = stored
                   /\ disk' = DiskAfterSave(disk, stored, outcome)
                   /\ calls' = [calls EXCEPT ![i].status = "returned",
                                             ![i].result = response.comments,
                                             ![i].response = response,
                                             ![i].wrote = "store"]
                   /\ UNCHANGED <<commentCache, hashCache>>
              ELSE /\ commentCache' = Put(commentCache, cacheKey, Join(response.comments))
                   /\ hashCache' = Put(hashCache, cacheKey, calculateHash(c.content))
                   /\ calls' = [calls EXCEPT ![i].status = "returned",
                                             ![i].result = response.comments,
                                             ![i].response = response,
                                             ![i].wrote = "legacy"]
                   /\ UNCHANGED <<data, disk>>
    /\ UNCHANGED <<workspaceFolders, now, ops, last, fsFiles, storage, apiKey>>

\* generateCommentsForFile was invoked on its own: nothing else follows
GenerationResolves(i, http, outcome) ==
    /\ ResolveCall(i, http, outcome)
    /\ UNCHANGED <<parseVars, sumVars, uiVars, cmdVars>>

\* the user saves, creates or deletes a source file
EditFile(filePath, file) ==
    /\ Len(calls) < MaxCalls
    /\ fsFiles[filePath] # file
    /\ fsFiles' = [fsFiles EXCEPT ![filePath] = file]
    /\ UNCHANGED <<storeVars, parseVars, sumVars, cmdVars, uiVars, storage, apiKey, commentCache,
                   hashCache, calls, resolved>>

NextGen ==
    \/ \E filePath \in GenPaths, level \in Levels :
           GenerateCommentsForFile(filePath, level)
    \/ \E i \in 1..MaxCalls, http \in HttpResults, outcome \in WriteOutcomes :
           GenerationResolves(i, http, outcome)
    \/ \E filePath \in GenPaths, file \in SourceFiles : EditFile(filePath, file)

SpecGen == InitGen /\ [][NextGen]_vars

----------------------------------------------------------------------------
(* The user actions that lead to generation: the showCodeCommentsPanel      *)
(* command (showCommentsSideBySide) and CommentManager.switchToLevel        *)

\* the documents an editor may show: a code file and a plain text file
CmdPaths == {<<"ws", "a.ts">>, <<"ws", "notes.txt">>}

\* what the webview of the manager's panel shows: nothing yet, the loading
\* page of a level, the comments returned by a call, an error page
Html(kind, level, call) == [kind |-> kind, level |-> level, call |-> call]

\* a user action: its name and level, the active editor and whether a panel
\* with a file was open when it ran, and the generateCommentsForFile call it
\* started (0: none)
Command(name, level, editor, hadPanel, call) ==
    [name |-> name, level |-> level, editor |-> editor, hadPanel |-> hadPanel,
     call |-> call]

\* a message shown by vscode.window.show*Message, and the user action it
\* belongs to
Message(kind, text, command) == [kind |-> kind, text |-> text, command |-> command]

\* the user action that started call i
CommandOf(cmds, i) == CHOOSE k \in 1..Len(cmds) : cmds[k].call = i

\* showCommentsSideBySide after its await (commentManager.ts:860-888)
AfterSideBySide(m, msgs, k, i, c) ==
    IF c.status = "returned"
    THEN [manager |-> [m EXCEPT !.currentPanel = TRUE,
                                !.html = Html("terminal", c.level, i),
                                !.originalFilePath = c.filePath,
                                !.cursorSync = 1,
                                !.disposed = FALSE],
          messages |-> Append(msgs, Message("information", "Smart comments generated", k))]
    ELSE [manager |-> m,
          messages |-> Append(msgs, Message("error", "Failed to generate comments", k))]

\* updatePanelContent after its await (commentManager.ts:970-977); the
\* webview of a closed panel rejects the assignment, in the catch block too
AfterPanelUpdate(m, msgs, k, i, c) ==
    IF m.disposed
    THEN [manager |-> [m EXCEPT !.closedRenders = @ \cup {<<k, "finish">>}],
          messages |-> msgs]
    ELSE IF c.status = "returned"
    THEN [manager |-> [m EXCEPT !.html = Html("comments", c.level, i)], messages |-> msgs]
    ELSE [manager |-> [m EXCEPT !.html = Html("error", c.level, i)], messages |-> msgs]

\* what follows call i of user action k once the call has returned or thrown
AfterCall(m, msgs, cmds, i, c) ==
    LET k == CommandOf(cmds, i)
    IN  IF cmds[k].name = "showCodeCommentsPanel"
        THEN AfterSideBySide(m, msgs, k, i, c)
        ELSE AfterPanelUpdate(m, msgs, k, i, c)

\* a user action starts call i = Len(calls) + 1 for (filePath, level), with
\* the manager as the action has left it so far; a call that returns or
\* throws without awaiting is followed at once by what comes after it
StartFromCommand(m, msgs, cmd, filePath, level) ==
    LET c == StartCall(filePath, level)
        i == Len(calls) + 1
        cmds == Append(commands, cmd)
        after == IF c.status = "awaiting"
                 THEN [manager |-> m, messages |-> msgs]
                 ELSE AfterCall(m, msgs, cmds, i, c)
    IN  /\ calls' = Append(calls, c)
        /\ commands' = cmds
        /\ manager' = after.manager
        /\ messages' = after.messages

\* a user action ends with a message and starts no call
EndWithMessage(cmd, kind, text) ==
    /\ commands' = Append(commands, cmd)
    /\ messages' = Append(messages, Message(kind, text, Len(commands) + 1))
    /\ UNCHANGED <<manager, calls>>


\* Init: the manager is constructed in a workspace or without one; both
\* documents exist on disk; some editor, or none, is active
InitCmd ==
    /\ now = 0
    /\ storage \in BOOLEAN
    /\ apiKey \in BOOLEAN
    /\ fsFiles = [p \in CmdPaths |-> SourceFile(TRUE, <<"a">>)]
    /\ workspaceFolders = IF storage THEN <<WorkspaceRoot>> ELSE <<>>
    /\ data = IF storage THEN LoadedData(DiskMissing, 0) ELSE createEmptyStorage(0)
    /\ disk = IF storage THEN DiskAfterSave(DiskMissing, LoadedData(DiskMissing, 0), "ok")
              ELSE DiskMissing
    /\ ops = 0
    /\ last = OpRecord("new", <<>>, 0, <<>>, "", "none", FALSE, DiskMissing)
    /\ parse = ParseIdle
    /\ commentCache = EmptyMap
    /\ hashCache = EmptyMap
    /\ calls = <<>>
    /\ resolved = <<>>
    /\ UiIdle
    /\ SumIdle
    /\ activeTextEditor \in CmdPaths \cup {NoPath}
    /\ manager = ManagerIdle
    /\ commands = <<>>
    /\ messages = <<>>

\* the user moves to another editor, or closes the last one
ChangeActiveEditor(editor) ==
    /\ Len(commands) < MaxCommands
    /\ activeTextEditor # editor
    /\ activeTextEditor' = editor
    /\ UNCHANGED <<storeVars, parseVars, sumVars, genVars, uiVars, manager, commands, messages>>

\* the user closes the manager's panel; the manager registers no
\* onDidDispose handler, so its fields stay as they are
ClosePanel ==
    /\ Len(commands) < MaxCommands
    /\ manager.currentPanel /\ ~manager.disposed
    /\ manager' = [manager EXCEPT !.disposed = TRUE]
    /\ UNCHANGED <<storeVars, parseVars, sumVars, genVars, uiVars, activeTextEditor,
                   commands, messages>>

\* the command codieumextension.showCodeCommentsPanel (part_001:113-137),
\* with showCommentsSideBySide up to its await
ShowCodeCommentsPanel ==
    /\ Len(commands) < MaxCommands
    /\ Len(calls) < MaxCalls
    /\ LET cmd == Command("showCodeCommentsPanel", 5, activeTextEditor,
                          manager.currentPanel /\ manager.currentFilePath # NoPath,
                          IF activeTextEditor = NoPath THEN 0 ELSE Len(calls) + 1)
       IN  IF activeTextEditor = NoPath
           THEN EndWithMessage(cmd, "information", "No active editor found.")
           ELSE StartFromCommand(manager, messages, cmd, activeTextEditor, 5)
    /\ UNCHANGED <<storeVars, parseVars, sumVars, uiVars, fsFiles, storage, apiKey,
                   commentCache, hashCache, resolved, activeTextEditor>>

\* switchToLevel(level), with showUnifiedCommentsPanel and updatePanelContent
\* up to the await (commentManager.ts:900-972)
SwitchToLevel(level) ==
    /\ Len(commands) < MaxCommands
    /\ Len(calls) < MaxCalls
    /\ LET hadPanel == manager.currentPanel /\ manager.currentFilePath # NoPath
           checked == ~hadPanel
           rejected == checked /\ (\/ activeTextEditor = NoPath
                                   \/ detectLanguage(basename(activeTextEditor)) = "text")
           cmd == Command("switchToLevel", level, activeTextEditor, hadPanel,
                          IF rejected THEN 0 ELSE Len(calls) + 1)
           filePath == IF hadPanel THEN manager.currentFilePath ELSE activeTextEditor
           opened == [manager EXCEPT !.currentPanel = TRUE,
                                     !.currentFilePath = filePath,
                                     !.currentLevel = level,
                                     !.html = Html("loading", level, 0),
                                     !.disposed = IF hadPanel THEN @ ELSE FALSE]
       IN  IF checked /\ activeTextEditor = NoPath
           THEN EndWithMessage(cmd, "warning", "No active editor found.")
           ELSE IF rejected
           THEN EndWithMessage(cmd, "warning", "Please open a code file")
           ELSE IF hadPanel /\ manager.disposed
           THEN \* lines 970 and 977 both throw: no call is made
                /\ commands' = Append(commands, [cmd EXCEPT !.call = 0])
                /\ manager' = [manager EXCEPT
                                  !.currentLevel = level,
                                  !.closedRenders = @ \cup {<<Len(commands) + 1, "start">>}]
                /\ UNCHANGED <<messages, calls>>
           ELSE StartFromCommand(opened, messages, cmd, filePath, level)
    /\ UNCHANGED <<storeVars, parseVars, sumVars, uiVars, fsFiles, storage, apiKey,
                   commentCache, hashCache, resolved, activeTextEditor>>

\* the generation call of call i resolves: generateCommentsForFile runs to
\* its end, and then what awaited it
CommandCallResolves(i, http, outcome) ==
    /\ ResolveCall(i, http, outcome)
    /\ LET after == AfterCall(manager, messages, commands, i, calls'[i])
       IN  /\ manager' = after.manager
           /\ messages' = after.messages
    /\ UNCHANGED <<parseVars, sumVars, uiVars, activeTextEditor, commands>>

NextCmd ==
    \/ \E editor \in CmdPaths \cup {NoPath} : ChangeActiveEditor(editor)
    \/ ShowCodeCommentsPanel
    \/ \E level \in Levels : SwitchToLevel(level)
    \/ ClosePanel
    \/ \E i \in 1..MaxCalls, http \in HttpResults, outcome \in WriteOutcomes :
           CommandCallResolves(i, http, outcome)

SpecCmd == InitCmd /\ [][NextCmd]_vars

----------------------------------------------------------------------------
(* The auto-panel extension: handleEditorChange and its debounce timer *)

\* the delay given to setTimeout, in milliseconds
DebounceDelay == 200

\* the editors onDidChangeActiveTextEditor reports: a code document, a
\* document that is not code, and no editor
Editors == {"a.ts", "notes.txt", Undefined}

isCodeFile(editor) == editor \in {"a.ts"}

\* the steps by which time passes between events, in milliseconds
Gaps == {100}

\* a pending timer of the host
Timer(handle, due, editor) == [handle |-> handle, due |-> due, editor |-> editor]

\* clearTimeout that leaves the timer pending
clearTimeout_Ignored(pending, handle) == pending

\* clearTimeout(handle): a handle that is undefined or no longer pending
\* clears nothing
clearTimeout(pending, handle) == {t \in pending : t.handle # handle}

\* the panel, the updates in flight and the listeners, as one value
PanelState(panel, upd, lst) == [panel |-> panel, updates |-> upd, listeners |-> lst]

\* updatePanelContent up to its await: the loading page is shown and the
\* summary is awaited
updatePanelContent(st) ==
    IF ~st.panel.exists THEN st
    ELSE [st EXCEPT !.panel.html = "loading", !.updates.awaiting = @ + 1]

\* showSampleTextPanel
showSampleTextPanel(st, isEnabled) ==
    IF ~isEnabled \/ st.panel.exists THEN st
    ELSE LET created == [st EXCEPT !.panel = [exists |-> TRUE, visible |-> TRUE,
                                              html |-> "blank"]]
             updating == updatePanelContent(created)
         IN  [updating EXCEPT !.listeners.documentChange = @ + 1,
                              !.listeners.configChange = @ + 1]

\* hideSampleTextPanel
hideSampleTextPanel(st) ==
    IF st.panel.exists THEN [st EXCEPT !.panel = NoPanel] ELSE st

\* the branch the deferred action takes
deferredBranch(st, editor) ==
    LET shouldShowPanel == editor # Undefined /\ isCodeFile(editor)
        panelExists == st.panel.exists
        panelCurrentlyVisible == st.panel.exists /\ st.panel.visible
    IN  IF shouldShowPanel /\ ~panelExists THEN "show"
        ELSE IF shouldShowPanel /\ panelExists /\ ~panelCurrentlyVisible THEN "reveal"
        ELSE IF shouldShowPanel /\ panelExists /\ panelCurrentlyVisible THEN "update"
        ELSE IF ~shouldShowPanel /\ panelCurrentlyVisible THEN "hide"
        ELSE "nothing"

\* the deferred action: the callback given to setTimeout
deferredAction(st, isEnabled, editor) ==
    LET branch == deferredBranch(st, editor)
    IN  IF branch = "show" THEN showSampleTextPanel(st, isEnabled)
        ELSE IF branch = "reveal" THEN [st EXCEPT !.panel.visible = TRUE]
        ELSE IF branch = "update" THEN updatePanelContent(st)
        ELSE IF branch = "hide" THEN hideSampleTextPanel(st)
        ELSE st

\* Init: activate has run, with or without a code editor active
InitDebounce ==
    /\ StoreIdle
    /\ parse = ParseIdle
    /\ GenIdle
    /\ CmdIdle
    /\ SumIdle
    /\ clock = 0
    /\ active = TRUE
    /\ debounceTimer = 0
    /\ timers = {}
    /\ triggers = <<>>
    /\ runs = <<>>
    /\ enabled \in BOOLEAN
    /\ \E editor \in Editors :
           LET idle == PanelState(NoPanel, [awaiting |-> 0, failed |-> 0],
                                  [documentChange |-> 0, configChange |-> 0])
               st == IF isCodeFile(editor) THEN showSampleTextPanel(idle, enabled)
                     ELSE idle
           IN  /\ currentPanel = st.panel
               /\ updates = st.updates
               /\ listeners = st.listeners

\* a pending timer is due
TimerDue == \E t \in timers : t.due <= clock

\* handleEditorChange(editor)
HandleEditorChange(editor) ==
    /\ active
    /\ Len(triggers) < MaxTriggers
    /\ ~TimerDue
    /\ LET handle == Len(triggers) + 1
           cleared == IF debounceTimer # 0 THEN clearTimeout(timers, debounceTimer)
                      ELSE timers
       IN  /\ timers' = cleared \cup {Timer(handle, clock + DebounceDelay, editor)}
           /\ debounceTimer' = handle
    /\ triggers' = Append(triggers, [at |-> clock, editor |-> editor])
    /\ UNCHANGED <<storeVars, parseVars, sumVars, cmdVars, genVars, clock, active, runs,
                   currentPanel,
                   enabled, updates, listeners>>

\* the host runs the callback of the timer of a handle, which is due
TimerFires(handle) ==
    /\ handle \in {t.handle : t \in {d \in timers : d.due <= clock}}
    /\ LET t == CHOOSE d \in timers : d.handle = handle
           st == PanelState(currentPanel, updates, listeners)
           after == deferredAction(st, enabled, t.editor)
       IN  /\ currentPanel' = after.panel
           /\ updates' = after.updates
           /\ listeners' = after.listeners
           /\ runs' = Append(runs, [handle |-> t.handle, at |-> clock,
                                    editor |-> t.editor,
                                    branch |-> deferredBranch(st, t.editor)])
           /\ timers' = timers \ {t}
    /\ UNCHANGED <<storeVars, parseVars, sumVars, cmdVars, genVars, clock, active, debounceTimer,
                   triggers, enabled>>

\* time passes, up to the next timer that falls due
Advance(gap) ==
    /\ clock + gap <= MaxTime
    /\ \A t \in timers : t.due >= clock + gap
    /\ clock' = clock + gap
    /\ UNCHANGED <<storeVars, parseVars, sumVars, cmdVars, genVars, active, debounceTimer, timers,
                   triggers, runs, currentPanel, enabled, updates, listeners>>

\* deactivate
Deactivate ==
    /\ active
    /\ active' = FALSE
    /\ timers' = IF debounceTimer # 0 THEN clearTimeout(timers, debounceTimer)
                 ELSE timers
    /\ UNCHANGED <<storeVars, parseVars, sumVars, cmdVars, genVars, clock, debounceTimer, triggers,
                   runs, currentPanel, enabled, updates, listeners>>

\* the user closes the panel: onDidDispose
PanelDisposed ==
    /\ currentPanel.exists
    /\ currentPanel' = NoPanel
    /\ UNCHANGED <<storeVars, parseVars, sumVars, cmdVars, genVars, clock, active, debounceTimer,
                   timers, triggers, runs, enabled, updates, listeners>>

\* the panel's tab is covered or uncovered
PanelVisibility(visible) ==
    /\ currentPanel.exists
    /\ currentPanel.visible # visible
    /\ currentPanel' = [currentPanel EXCEPT !.visible = visible]
    /\ UNCHANGED <<storeVars, parseVars, sumVars, cmdVars, genVars, clock, active, debounceTimer,
                   timers, triggers, runs, enabled, updates, listeners>>

\* getCurrentSummary resolves and updatePanelContent runs to its end: the
\* page is written to whatever currentPanel is by then
SummaryResolves ==
    /\ updates.awaiting > 0
    /\ IF currentPanel.exists
       THEN /\ currentPanel' = [currentPanel EXCEPT !.html = "summary"]
            /\ updates' = [updates EXCEPT !.awaiting = @ - 1]
       ELSE /\ updates' = [updates EXCEPT !.awaiting = @ - 1, !.failed = @ + 1]
            /\ UNCHANGED currentPanel
    /\ UNCHANGED <<storeVars, parseVars, sumVars, cmdVars, genVars, clock, active, debounceTimer,
                   timers, triggers, runs, enabled, listeners>>

NextDebounce ==
    \/ \E editor \in Editors : HandleEditorChange(editor)
    \/ \E handle \in 1..MaxTriggers : TimerFires(handle)
    \/ \E gap \in Gaps : Advance(gap)
    \/ Deactivate
    \/ PanelDisposed
    \/ \E visible \in BOOLEAN : PanelVisibility(visible)
    \/ SummaryResolves

SpecDebounce == InitDebounce /\ [][NextDebounce]_vars

----------------------------------------------------------------------------
(* The auto-panel's summary database (part_001) *)

\* the file of the active editor and the texts its document takes
SummaryFile == "a.ts"
DocumentTexts == {"", "c1", "c2"}

\* getDatabaseKey: `${filePath}:level${level}`
getDatabaseKey(filePath, level) == <<filePath, level>>

\* generateContentHash: the sha256 digest, modelled as an injective tagging
generateContentHash(content) == <<"sha256", content>>

\* generateSimpleSummary: the text made from the code for a level
generateSimpleSummary(code, level) == [level |-> level, code |-> code]

\* SummaryRecord
SummaryRecord(filePath, level, summary, contentHash) ==
    [filePath |-> filePath, level |-> level, summary |-> summary,
     contentHash |-> contentHash]

\* loadSummaryFromDatabase: the record's summary, when the hashes agree
loadSummaryFromDatabase(db, filePath, level, currentContentHash) ==
    LET key == getDatabaseKey(filePath, level)
    IN  IF key \in DOMAIN db /\ db[key].contentHash = currentContentHash
        THEN [found |-> TRUE, summary |-> db[key].summary]
        ELSE [found |-> FALSE, summary |-> generateSimpleSummary("", 0)]

\* getCurrentSummary, line 292: the level saveSummaryToDatabase is called
\* with is currentAbstractionLevel as it is after the await
SaveLevel(invocation, levelNow) == levelNow

\* saveSummaryToDatabase
saveSummaryToDatabase(db, filePath, level, summary, contentHash) ==
    Put(db, getDatabaseKey(filePath, level),
        SummaryRecord(filePath, level, summary, contentHash))

\* one invocation of getCurrentSummary: the file, the code and the level it
\* read at its start, and where it stands
SummaryCall(filePath, code, level, status, source) ==
    [filePath |-> filePath, code |-> code, level |-> level, status |-> status,
     source |-> source]

\* getCurrentSummary up to its return or its await (lines 265-289)
StartSummary(db, code, level) ==
    IF code = "" THEN SummaryCall(SummaryFile, code, level, "done", "empty")
    ELSE IF loadSummaryFromDatabase(db, SummaryFile, level,
                                    generateContentHash(code)).found
    THEN SummaryCall(SummaryFile, code, level, "done", "database")
    ELSE SummaryCall(SummaryFile, code, level, "awaiting", "generated")

\* updatePanelContent with the panel open: the loading page, getCurrentSummary
\* up to its await and, when it returned without awaiting, the page
UpdatePanelStarts ==
    LET c == StartSummary(summaryDatabase, documentText', currentAbstractionLevel')
    IN  /\ summaries' = Append(summaries, c)
        /\ currentPanel' = [currentPanel EXCEPT
                              !.html = IF c.status = "done" THEN "summary" ELSE "loading"]
        /\ updates' = IF c.status = "done" THEN updates
                      ELSE [updates EXCEPT !.awaiting = @ + 1]

\* Init: the extension is active, the panel is open on a code file and no
\* summary has been asked for
InitSummary ==
    /\ StoreIdle
    /\ parse = ParseIdle
    /\ GenIdle
    /\ CmdIdle
    /\ clock = 0
    /\ active = TRUE
    /\ debounceTimer = 0
    /\ timers = {}
    /\ triggers = <<>>
    /\ runs = <<>>
    /\ enabled = TRUE
    /\ currentPanel = [exists |-> TRUE, visible |-> TRUE, html |-> "blank"]
    /\ updates = [awaiting |-> 0, failed |-> 0]
    /\ listeners = [documentChange |-> 1, configChange |-> 1]
    /\ summaryDatabase = EmptyMap
    /\ currentAbstractionLevel = 3
    /\ summaries = <<>>
    /\ documentText \in DocumentTexts

\* the webview's changeLevel message (lines 327-333)
ChangeLevel(level) ==
    /\ Len(summaries) < MaxSummaries
    /\ currentAbstractionLevel' = level
    /\ UNCHANGED documentText
    /\ UpdatePanelStarts
    /\ UNCHANGED <<storeVars, parseVars, genVars, cmdVars, summaryDatabase, clock,
                   active, debounceTimer, timers, triggers, runs, enabled, listeners>>

\* the user edits the document: the document-change listener (lines 350-354)
EditDocument(text) ==
    /\ Len(summaries) < MaxSummaries
    /\ text # documentText
    /\ documentText' = text
    /\ UNCHANGED currentAbstractionLevel
    /\ UpdatePanelStarts
    /\ UNCHANGED <<storeVars, parseVars, genVars, cmdVars, summaryDatabase, clock,
                   active, debounceTimer, timers, triggers, runs, enabled, listeners>>

\* generateSimpleSummary's 500 ms timer of invocation i fires (the timers
\* have the same delay, so the oldest fires first) and getCurrentSummary and
\* updatePanelContent run to their ends (lines 289-294, 939-942)
SummaryGenerated(i) ==
    /\ i \in 1..Len(summaries)
    /\ summaries[i].status = "awaiting"
    /\ \A j \in 1..(i - 1) : summaries[j].status = "done"
    /\ LET c == summaries[i]
       IN  summaryDatabase' =
               saveSummaryToDatabase(summaryDatabase, c.filePath,
                                     SaveLevel(c, currentAbstractionLevel),
                                     generateSimpleSummary(c.code, c.level),
                                     generateContentHash(c.code))
    /\ summaries' = [summaries EXCEPT ![i].status = "done"]
    /\ currentPanel' = [currentPanel EXCEPT !.html = "summary"]
    /\ updates' = [updates EXCEPT !.awaiting = @ - 1]
    /\ UNCHANGED <<storeVars, parseVars, genVars, cmdVars, currentAbstractionLevel,
                   documentText, clock, active, debounceTimer, timers, triggers, runs,
                   enabled, listeners>>

NextSummary ==
    \/ \E level \in Levels : ChangeLevel(level)
    \/ \E text \in DocumentTexts : EditDocument(text)
    \/ \E i \in 1..MaxSummaries : SummaryGenerated(i)

\* the summaries of the auto-panel while its panel stays open
SpecSummary == InitSummary /\ [][NextSummary]_vars

----------------------------------------------------------------------------
(* Properties of the store (checked under SpecStore and SpecLoad) *)

\* the entry the document holds for (filePath, level): a set with the entry,
\* or the empty set
EntriesAt(d, filePath, level) ==
    LET key == getRelativeFilePath(workspaceFolders, filePath)
        cacheKey == generateCacheKey(filePath, level)
    IN  IF key \in DOMAIN d.files /\ cacheKey \in DOMAIN d.files[key]
        THEN {d.files[key][cacheKey]}
        ELSE {}

MutatingOps == {"storeComments", "removeComments", "removeFile", "clearAll"}

\* C1: immediately after storeComments(path, level, comments, content, ...),
\* hasComments(path, level, content) is true and getComments(path, level)
\* returns exactly comments, whatever the store held before.
C1_StoreThenHit ==
    last.op = "storeComments" =>
        /\ hasComments(data, workspaceFolders, last.filePath, last.level, last.content)
        /\ getComments(data, workspaceFolders, last.filePath, last.level)
              = [isNull |-> FALSE, comments |-> last.comments]

\* C1 witness: a store of a non-empty sequence into a document that also
\* holds entries of another file
C1_Witness ==
    /\ last.op = "storeComments"
    /\ last.comments # <<>>
    /\ \E p \in DOMAIN data.files :
          p # getRelativeFilePath(workspaceFolders, last.filePath)

\* C2: in every reachable state hasComments(path, level, c) is true exactly
\* when an entry exists for (path, level) and its stored fingerprint is the
\* digest of c; after storeComments with content, hasComments is false for
\* every other content.
C2_ValidIffFingerprintMatches ==
    /\ \A f \in FilePaths, l \in Levels, c \in Contents :
          hasComments(data, workspaceFolders, f, l, c)
             <=> \E e \in EntriesAt(data, f, l) : e.fileHash = calculateFileHash(c)
    /\ last.op = "storeComments" =>
          \A c \in Contents \ {last.content} :
              ~hasComments(data, workspaceFolders, last.filePath, last.level, c)

\* C2 witness: an entry that is valid for one content and stale for another
C2_Witness ==
    /\ last.op \in {"storeComments", "importData", "initializeStorage"}
    /\ \E f \in FilePaths, l \in Levels, c1 \in Contents, c2 \in Contents :
          /\ EntriesAt(data, f, l) # {}
          /\ hasComments(data, workspaceFolders, f, l, c1)
          /\ ~hasComments(data, workspaceFolders, f, l, c2)

\* C3: after every operation that changes the document (the load at
\* construction included), metadata.totalFiles is the number of paths with
\* at least one level and metadata.totalComments the sum of the lengths of
\* the stored comment sequences.
C3_CountersMatchEntries ==
    Constructed =>
        /\ data.metadata.totalFiles = CountFiles(data.files)
        /\ data.metadata.totalComments = CountComments(data.files)

\* C4: loading (at construction or through importData) a document whose
\* version is absent or not the current one, with metadata and files present
\* or absent, raises no error, ends with the current version and keeps every
\* entry of the loaded document.
C4_MigrationKeepsEntries ==
    (/\ last.op \in {"initializeStorage", "importData"}
     /\ last.loaded.state = "json"
     /\ last.loaded.value.kind = "object"
     /\ last.loaded.value.version # STORAGE_VERSION)
    => /\ ~last.threw
       /\ data.version = STORAGE_VERSION
       /\ data.files = last.loaded.value.files

\* C7: when the write of the storage file fails during storeComments,
\* removeComments, removeFile or clearAll, the call does not throw and the
\* document in memory reflects the mutation, with its counters recomputed.
C7_WriteFailureSwallowed ==
    (last.op \in MutatingOps /\ last.write = "failed") =>
        /\ ~last.threw
        /\ data.metadata.totalFiles = CountFiles(data.files)
        /\ data.metadata.totalComments = CountComments(data.files)
        /\ last.op = "storeComments" =>
              /\ hasComments(data, workspaceFolders, last.filePath, last.level,
                             last.content)
              /\ getComments(data, workspaceFolders, last.filePath, last.level)
                    = [isNull |-> FALSE, comments |-> last.comments]
        /\ last.op = "removeComments" =>
              getComments(data, workspaceFolders, last.filePath, last.level).isNull
        /\ last.op = "removeFile" =>
              getRelativeFilePath(workspaceFolders, last.filePath)
                  \notin DOMAIN data.files
        /\ last.op = "clearAll" => data.files = EmptyMap

\* C7 witness: a store whose write failed, so that the file on disk is not
\* the document in memory
C7_Witness ==
    /\ last.op = "storeComments"
    /\ last.write = "failed"
    /\ last.comments # <<>>
    /\ disk # DiskFile("json", ToJson(data))
    /\ hasComments(data, workspaceFolders, last.filePath, last.level, last.content)

\* the storage file exists and cannot be read, is not JSON, or parses to a
\* value that is not an object
BadFile(file) ==
    \/ file.state \in {"unreadable", "badjson"}
    \/ file.state = "json" /\ file.value.kind # "object"

----------------------------------------------------------------------------
(* Level-5 reconciliation *)

\* N: the number of lines of the source text, counted from its separators
SourceLineCount(code) == Cardinality({i \in 1..Len(code) : code[i] = Newline}) + 1

\* line i of the source is empty or whitespace only
BlankSourceLine(code, i) == \A j \in 1..Len(Split(code)[i]) : Split(code)[i][j] \in Whitespace

\* the number of non-blank source lines among the first i
NonBlankRank(code, i) == Cardinality({j \in 1..i : ~BlankSourceLine(code, j)})

\* the non-blank lines of the raw response, in order
ResponseLines(content) == FilterNonBlank(Split(content))

\* C5: for a source text of N lines and a raw response of M non-blank
\* lines, parseComments returns exactly N comments, whatever M is, and the
\* comment at the position of every blank source line is the empty string.
C5_OneCommentPerSourceLine ==
    parse.done =>
        /\ Len(parse.result) = SourceLineCount(parse.code)
        /\ \A i \in 1..Len(parse.result) :
               BlankSourceLine(parse.code, i) => parse.result[i] = <<>>

\* a source of several lines, one of them blank and one not, and a response
\* with no non-blank line at all
C5_Witness ==
    /\ parse.done
    /\ SourceLineCount(parse.code) >= 2
    /\ \E i \in 1..Len(parse.result) : BlankSourceLine(parse.code, i)
    /\ \E i \in 1..Len(parse.result) : ~BlankSourceLine(parse.code, i)
    /\ Len(ResponseLines(parse.content)) = 0
    /\ Len(parse.content) > 0

\* C6: the k-th non-blank response line, trimmed, is the comment of the
\* k-th non-blank source line; non-blank source lines beyond the response
\* get '// Code line'; surplus response lines appear nowhere.  Source
\* "a\n\na" with response "A\nB" gives <<"A", "", "B">>.
C6_KthLineToKthNonBlank ==
    parse.done =>
        /\ \A i \in 1..Len(parse.result) :
               ~BlankSourceLine(parse.code, i) =>
                   LET k == NonBlankRank(parse.code, i)
                   IN  parse.result[i] =
                           IF k <= Len(ResponseLines(parse.content))
                           THEN Trim(ResponseLines(parse.content)[k])
                           ELSE Placeholder
        /\ \A k \in 1..Len(ResponseLines(parse.content)) :
               k > NonBlankRank(parse.code, Len(parse.result)) =>
                   \/ \A i \in 1..Len(parse.result) :
                          parse.result[i] # Trim(ResponseLines(parse.content)[k])
                   \/ \E j \in 1..NonBlankRank(parse.code, Len(parse.result)) :
                          Trim(ResponseLines(parse.content)[j])
                              = Trim(ResponseLines(parse.content)[k])
        /\ (/\ parse.code = <<"a", Newline, Newline, "a">>
            /\ parse.content = <<"A", Newline, "B">>)
               => parse.result = << <<"A">>, <<>>, <<"B">> >>

\* the example of the claim, parsed
C6_Witness ==
    /\ parse.done
    /\ parse.code = <<"a", Newline, Newline, "a">>
    /\ parse.content = <<"A", Newline, "B">>
    /\ parse.result = << <<"A">>, <<>>, <<"B">> >>

\* a response with more non-blank lines than the source has
C6_WitnessSurplus ==
    /\ parse.done
    /\ Len(ResponseLines(parse.content)) > NonBlankRank(parse.code, Len(parse.result))
    /\ NonBlankRank(parse.code, Len(parse.result)) >= 1

\* a source with more non-blank lines than the response has
C6_WitnessExhausted ==
    /\ parse.done
    /\ Len(ResponseLines(parse.content)) >= 1
    /\ \E i \in 1..Len(parse.result) : parse.result[i] = Placeholder

----------------------------------------------------------------------------
(* Overlapping generation requests (checked under SpecGen) *)

\* invocations i and j are about the same (path, level)
SameKey(i, j) ==
    calls[i].filePath = calls[j].filePath /\ calls[i].level = calls[j].level

\* j sent its generation request while i was awaiting its own
Overlapping(i, j) ==
    /\ i \in calls[j].pending
    /\ calls[j].source = "generated"

\* the place of invocation i in the order of resolution (0: not resolved)
ResolvedAt(i) ==
    IF \E k \in 1..Len(resolved) : resolved[k] = i
    THEN CHOOSE k \in 1..Len(resolved) : resolved[k] = i
    ELSE 0

\* the generation call of i has resolved with success
Generated(i) == ResolvedAt(i) > 0 /\ calls[i].response.success

\* the store holds, for the key of invocation i, the entry i wrote
HoldsEntryOf(i) ==
    LET held == EntriesAt(data, calls[i].filePath, calls[i].level)
    IN  /\ held # {}
        /\ \A e \in held :
               /\ e.comments = calls[i].response.comments
               /\ e.fileHash = calculateFileHash(calls[i].content)

\* C9: of two overlapping requests for the same (path, level), with a store,
\* neither is cancelled: each one whose generation call resolves with
\* success writes to the store and returns its own comments; and once both
\* have, the entry held is that of the one whose generation call resolved
\* last (no later request having written since), whichever started first.
C9_LaterResolutionWins ==
    storage =>
        \A i \in 1..Len(calls), j \in 1..Len(calls) :
            (SameKey(i, j) /\ Overlapping(i, j)) =>
                /\ \A k \in {i, j} :
                       Generated(k) =>
                           /\ calls[k].status = "returned"
                           /\ calls[k].wrote = "store"
                           /\ calls[k].result = calls[k].response.comments
                /\ \A k \in {i, j} :
                       ResolvedAt(k) = 0 => calls[k].status = "awaiting"
                /\ (/\ Generated(i) /\ Generated(j)
                    /\ \A m \in 1..Len(calls) :
                           (SameKey(i, m) /\ Generated(m))
                               => ResolvedAt(m) <= ResolvedAt(i) \/ ResolvedAt(m) <= ResolvedAt(j))
                       => IF ResolvedAt(i) > ResolvedAt(j)
                          THEN HoldsEntryOf(i)
                          ELSE HoldsEntryOf(j)

\* the request started first resolves last, with other comments than the
\* second, and its entry is the one held
C9_Witness ==
    /\ storage
    /\ Len(calls) = 2
    /\ SameKey(1, 2) /\ Overlapping(1, 2)
    /\ resolved = <<2, 1>>
    /\ Generated(1) /\ Generated(2)
    /\ calls[1].response.comments # calls[2].response.comments
    /\ calls[1].wrote = "store" /\ calls[2].wrote = "store"
    /\ HoldsEntryOf(1)
    /\ ~HoldsEntryOf(2)

----------------------------------------------------------------------------
(* The debounce of handleEditorChange (checked under SpecDebounce) *)

\* trigger k ends its burst: no trigger follows it within the quiet period
LastOfBurst(k) ==
    \/ k = Len(triggers)
    \/ triggers[k + 1].at - triggers[k].at >= DebounceDelay

\* the runs of the deferred action installed by trigger k
RunsOf(k) == {r \in 1..Len(runs) : runs[r].handle = k}

\* the timer installed by trigger k is still pending
PendingOf(k) == \E t \in timers : t.handle = k

\* C10: at most one timer is pending, and it is the one of the latest
\* trigger; a trigger followed by another within the quiet period never has
\* its action run; the action of the last trigger of a burst runs at most
\* once, with that trigger's editor and not before the quiet period after it
\* has passed, and, the extension still being active, exactly once as soon
\* as its timer is no longer pending.
C10_OneRunPerBurst ==
    /\ Cardinality(timers) <= 1
    /\ \A t \in timers : t.handle = debounceTimer /\ t.handle = Len(triggers)
    /\ \A k \in 1..Len(triggers) :
           /\ Cardinality(RunsOf(k)) <= 1
           /\ ~LastOfBurst(k) => RunsOf(k) = {}
           /\ \A r \in RunsOf(k) :
                  /\ runs[r].editor = triggers[k].editor
                  /\ runs[r].at >= triggers[k].at + DebounceDelay
           /\ (LastOfBurst(k) /\ active /\ ~PendingOf(k))
                  => Cardinality(RunsOf(k)) = 1
    /\ \A r \in 1..Len(runs) : runs[r].handle \in 1..Len(triggers)

\* a burst of two triggers 100 ms apart, for different editors: the only run
\* is the second trigger's, with its editor
C10_Witness ==
    /\ Len(triggers) = 2
    /\ triggers[2].at - triggers[1].at \in 1..(DebounceDelay - 1)
    /\ triggers[1].editor # triggers[2].editor
    /\ Len(runs) = 1
    /\ runs[1].handle = 2
    /\ runs[1].editor = triggers[2].editor
    /\ runs[1].at = triggers[2].at + DebounceDelay

----------------------------------------------------------------------------
(* User actions and missing input (checked under SpecCmd) *)

\* user action k ran with no active document, or on a file whose type
\* detectLanguage does not know
MissingInput(k) ==
    \/ commands[k].editor = NoPath
    \/ detectLanguage(basename(commands[k].editor)) = "text"

\* user action k takes its file from the active editor
ConsultsEditor(k) ==
    \/ commands[k].name = "showCodeCommentsPanel"
    \/ commands[k].name = "switchToLevel" /\ ~commands[k].hadPanel

\* user action k sent a generation request
RequestSentBy(k) ==
    commands[k].call # 0 /\ calls[commands[k].call].source = "generated"

\* user action k told the user about its input (a warning; the command's
\* notice for a missing editor is an information message and is counted)
WarnedBy(k) ==
    \E m \in 1..Len(messages) :
        /\ messages[m].command = k
        /\ messages[m].kind \in {"warning", "information"}
        /\ messages[m].text \in {"No active editor found.", "Please open a code file"}

\* C11: a user action that would trigger generation, run with no active
\* document or on a file of an unsupported type, shows a warning and sends
\* no generation request.
C11_MissingInputWarned ==
    \A k \in 1..Len(commands) :
        (ConsultsEditor(k) /\ MissingInput(k)) => (WarnedBy(k) /\ ~RequestSentBy(k))

----------------------------------------------------------------------------
(* The cache-or-generate pipeline (checked under SpecGen) *)

\* document d holds an entry for (filePath, level) whose fingerprint is the
\* digest of content
ValidEntry(d, filePath, level, content) ==
    \E e \in EntriesAt(d, filePath, level) : e.fileHash = calculateFileHash(content)

\* the invocation this step starts finds a valid entry for the file as it is
StartsOnValidEntry ==
    LET c == calls'[Len(calls')]
    IN  /\ fsFiles[c.filePath].exists
        /\ ValidEntry(data, c.filePath, c.level, fsFiles[c.filePath].content)

\* C12: with a store, an invocation that finds a valid entry for (path,
\* level, current content) returns the stored comments, sends no generation
\* request and leaves the store as it was; stored comments are returned and
\* no request is sent only in that case; and when a generation call
\* resolves with success its comments are in the store, under the digest of
\* the content sent.
C12_StoreHitOrGenerate ==
    [][ /\ (storage /\ Len(calls') = Len(calls) + 1) =>
               LET c == calls'[Len(calls')]
               IN  /\ StartsOnValidEntry =>
                          /\ c.status = "returned"
                          /\ c.source = "stored"
                          /\ \A e \in EntriesAt(data, c.filePath, c.level) :
                                 c.result = e.comments
                          /\ data' = data
                          /\ disk' = disk
                   /\ c.source = "stored" => StartsOnValidEntry
                   /\ c.source = "generated" => ~StartsOnValidEntry
        /\ \A i \in Awaiting(calls) :
               (storage /\ i \notin Awaiting(calls') /\ calls'[i].response.success) =>
                   \E e \in EntriesAt(data', calls[i].filePath, calls[i].level) :
                       /\ e.comments = calls'[i].response.comments
                       /\ e.fileHash = calculateFileHash(calls[i].content)
      ]_vars

\* a first invocation generated and stored its comments, a second one for
\* the same file got them from the store
C12_Witness ==
    /\ storage
    /\ Len(calls) = 2
    /\ calls[1].source = "generated" /\ calls[1].wrote = "store"
    /\ calls[2].source = "stored" /\ calls[2].status = "returned"
    /\ calls[2].result = calls[1].result
    /\ calls[2].result # <<>>
    /\ resolved = <<1>>

\* invocation i fails in this step: its generation call has come back with
\* success = false
FailsNow(i) ==
    /\ calls'[i].status = "threw"
    /\ calls'[i].response # NoResponse
    /\ ~calls'[i].response.success
    /\ i > Len(calls) \/ calls[i].status = "awaiting"

\* C13: when the generation call of an invocation returns success = false,
\* the invocation raises an error with the collaborator's message, the
\* store, its file and the in-memory caches stay exactly as they were, and
\* the call is not made again: the invocation is over, no other invocation
\* is started by the failure, and its call resolves at most once.
C13_FailureNotRetriedNotCached ==
    [][ /\ \A i \in 1..Len(calls') :
               FailsNow(i) =>
                   /\ calls'[i].error = calls'[i].response.error
                   /\ calls'[i].response.error # ""
                   /\ calls'[i].result = <<>>
                   /\ calls'[i].wrote = "none"
                   /\ data' = data /\ disk' = disk
                   /\ commentCache' = commentCache /\ hashCache' = hashCache
                   /\ Len(calls') = IF i > Len(calls) THEN i ELSE Len(calls)
                   /\ Awaiting(calls') = Awaiting(calls) \ {i}
                   /\ \A k \in 1..Len(resolved) : resolved[k] # i
        /\ \A i \in 1..Len(calls) :
               calls[i].status = "threw" => calls'[i] = calls[i]
      ]_vars

\* a first invocation stored its comments; the file changed; the generation
\* call of a second invocation failed, and the first entry is still held
C13_Witness ==
    /\ storage
    /\ Len(calls) = 2
    /\ resolved = <<1, 2>>
    /\ calls[1].wrote = "store"
    /\ calls[2].source = "generated" /\ calls[2].status = "threw"
    /\ SameKey(1, 2)
    /\ calls[2].content # calls[1].content
    /\ calls[2].error = "request failed"
    /\ HoldsEntryOf(1)

----------------------------------------------------------------------------
(* Whole-document persistence *)

\* the storage file holds exactly the document in memory
DiskIsMemory == disk = DiskFile("json", ToJson(data))

\* C14: after construction and after every storeComments, removeComments,
\* removeFile, clearAll or importData whose write succeeds, the file on disk
\* equals the whole document in memory; a store constructed where no file
\* exists has written an empty document.
C14_DiskEqualsMemory ==
    /\ (last.op = "initializeStorage" /\ last.write # "failed") => DiskIsMemory
    /\ (last.op \in MutatingOps \cup {"importData"} /\ last.write = "ok")
          => DiskIsMemory
    /\ (last.op = "initializeStorage" /\ last.loaded.state = "missing"
          /\ last.write = "ok")
          => /\ disk.state = "json"
             /\ disk.value.files = EmptyMap
             /\ disk.value.metadata.totalFiles = 0
             /\ disk.value.metadata.totalComments = 0

----------------------------------------------------------------------------
(* The list of stored files *)

\* the paths of the document that hold at least one entry
PathsWithEntries(d) == {p \in DOMAIN d.files : DOMAIN d.files[p] # {}}

\* C15: in every state, loaded and imported documents included,
\* getStoredFiles returns one row for every path that has at least one entry
\* and no other row, in descending order of lastUpdated, the greatest
\* timestamp of the path's entries, with levels the set of levels stored for
\* the path.
C15_OneRowPerStoredPath ==
    LET rows == getStoredFiles(data)
    IN  /\ \A p \in PathsWithEntries(data) :
              Cardinality({i \in 1..Len(rows) : rows[i].filePath = p}) = 1
        /\ \A i \in 1..Len(rows) : rows[i].filePath \in PathsWithEntries(data)
        /\ \A i, j \in 1..Len(rows) :
              i < j => rows[i].lastUpdated >= rows[j].lastUpdated
        /\ \A i \in 1..Len(rows) :
              LET fileData == data.files[rows[i].filePath]
              IN  /\ rows[i].levels
                        = {fileData[k].abstractionLevel : k \in DOMAIN fileData}
                  /\ \A k \in DOMAIN fileData :
                        fileData[k].timestamp <= rows[i].lastUpdated
                  /\ \E k \in DOMAIN fileData :
                        fileData[k].timestamp = rows[i].lastUpdated

----------------------------------------------------------------------------
(* Path normalization *)

\* C16: an entry stored for an absolute path is found by hasComments,
\* getComments, removeComments and removeFile for the same absolute path in
\* every later state, also when the workspace folder list has changed since
\* the write.
C16_StoredPathFound ==
    last.op = "storeComments" =>
        /\ hasComments(data, workspaceFolders, last.filePath, last.level, last.content)
        /\ getComments(data, workspaceFolders, last.filePath, last.level)
              = [isNull |-> FALSE, comments |-> last.comments]
        /\ removeComments(data, workspaceFolders, last.filePath, last.level, now).changed
        /\ removeFile(data, workspaceFolders, last.filePath, now).changed

----------------------------------------------------------------------------
(* Removal of one entry *)

\* the paths getStoredFiles has a row for
RowPaths(d) == {getStoredFiles(d)[i].filePath : i \in 1..Len(getStoredFiles(d))}

\* the cache keys stored for a path besides the one of a level
OtherKeys(d, filePath, level) ==
    LET key == getRelativeFilePath(workspaceFolders, filePath)
    IN  IF key \in DOMAIN d.files
        THEN DOMAIN d.files[key] \ {generateCacheKey(filePath, level)}
        ELSE {}

\* C17: after removeComments(path, level), getComments(path, level) is null
\* and hasComments(path, level, c) is false for every content c; when the
\* level was the only one stored for the path, getStoredFiles has no row for
\* the path any more; the path's other levels stay as they were.
C17_RemovedEntryAbsent ==
    [][(last'.op = "removeComments" /\ ops' = ops + 1) =>
          LET f == last'.filePath
              l == last'.level
              key == getRelativeFilePath(workspaceFolders, f)
          IN  /\ getComments(data', workspaceFolders, f, l).isNull
              /\ \A c \in Contents : ~hasComments(data', workspaceFolders, f, l, c)
              /\ (EntriesAt(data, f, l) # {} /\ OtherKeys(data, f, l) = {})
                    => key \notin RowPaths(data')
              /\ OtherKeys(data, f, l) # {} =>
                    /\ key \in RowPaths(data')
                    /\ DOMAIN data'.files[key] = OtherKeys(data, f, l)
                    /\ \A k \in OtherKeys(data, f, l) :
                          data'.files[key][k] = data.files[key][k]]_vars

\* C17 witness: the only level of a path has been removed and written, and
\* the other path of the document is still listed
C17_Witness ==
    /\ last.op = "removeComments"
    /\ last.write = "ok"
    /\ getRelativeFilePath(workspaceFolders, last.filePath) \notin RowPaths(data)
    /\ last.loaded = DiskMissing
    /\ RowPaths(data) # {}

----------------------------------------------------------------------------
(* Clearing the store *)

\* C18: after clearAll, whatever the document held and whether or not the
\* write succeeded, getStats reports no file and no comment, getStoredFiles
\* returns the empty sequence and getComments returns null for every path
\* and level.
C18_ClearAllEmpties ==
    last.op = "clearAll" =>
        /\ getStats(data).totalFiles = 0
        /\ getStats(data).totalComments = 0
        /\ getStoredFiles(data) = <<>>
        /\ \A f \in FilePaths, l \in Levels :
              getComments(data, workspaceFolders, f, l).isNull

\* C18 witness: clearAll has emptied a document of several entries; its
\* write failed, so the file still shows what the document held
C18_Witness ==
    /\ last.op = "clearAll"
    /\ last.write = "failed"
    /\ disk.state = "json"
    /\ CountComments(disk.value.files) > 1
    /\ getStoredFiles(data) = <<>>

----------------------------------------------------------------------------
(* Counters under repeated stores *)

\* the step is a call of storeComments
StoreStep == last'.op = "storeComments" /\ ops' = ops + 1

\* the call repeats the arguments of the call before it
SameArguments ==
    /\ last.op = "storeComments"
    /\ last'.filePath = last.filePath
    /\ last'.level = last.level
    /\ last'.comments = last.comments
    /\ last'.content = last.content

\* C19: a storeComments that repeats the arguments of the call before it
\* leaves totalFiles and totalComments of getStats as that call left them,
\* and a storeComments onto an existing (path, level) entry replaces the
\* entry's comment count in totalComments, totalFiles staying as it was.
C19_StoreIdempotentOnCounters ==
    [][StoreStep =>
          /\ SameArguments =>
                /\ getStats(data').totalFiles = getStats(data).totalFiles
                /\ getStats(data').totalComments = getStats(data).totalComments
          /\ \A e \in EntriesAt(data, last'.filePath, last'.level) :
                /\ getStats(data').totalFiles = getStats(data).totalFiles
                /\ getStats(data').totalComments
                      = getStats(data).totalComments - Len(e.comments)
                          + Len(last'.comments)]_vars

\* C19 witness: the second of two calls of storeComments has written the
\* two comments of one file's level-5 entry over the entry of the first, and
\* the counters show one file and two comments
C19_Witness ==
    /\ ops = 2
    /\ last.op = "storeComments"
    /\ last.level = 5
    /\ last.comments = <<"x", "y">>
    /\ DOMAIN data.files = {getRelativeFilePath(workspaceFolders, last.filePath)}
    /\ DOMAIN data.files[getRelativeFilePath(workspaceFolders, last.filePath)]
          = {generateCacheKey(last.filePath, 5)}
    /\ getStats(data).totalFiles = 1
    /\ getStats(data).totalComments = 2

----------------------------------------------------------------------------
(* The comment count of generated entries *)

\* the entries of the document, all of them written by generateCommentsForFile
\* (the manager's store starts empty)
StoredEntries(d) ==
    UNION {{d.files[p][k] : k \in DOMAIN d.files[p]} : p \in DOMAIN d.files}

\* the content an entry's fingerprint was computed from
FingerprintedContent(e) ==
    CHOOSE content \in GenContents : calculateFileHash(content) = e.fileHash

\* C20: every entry generateCommentsForFile has written holds, at level 5,
\* as many comments as the content its fingerprint was computed from has
\* lines, and at any other level exactly one comment.
C20_StoredCountMatchesLevel ==
    \A e \in StoredEntries(data) :
        /\ \E content \in GenContents : calculateFileHash(content) = e.fileHash
        /\ IF e.abstractionLevel = 5
           THEN Len(e.comments) = SourceLineCount(FingerprintedContent(e))
           ELSE Len(e.comments) = 1

\* C20 witness: a level-5 request for a file of two lines got a response of
\* fewer lines, and what it stored has two comments, the second the
\* placeholder
C20_Witness ==
    \E i \in 1..Len(calls) :
        /\ calls[i].level = 5
        /\ calls[i].wrote = "store"
        /\ SourceLineCount(calls[i].content) = 2
        /\ HoldsEntryOf(i)
        /\ \E e \in EntriesAt(data, calls[i].filePath, 5) :
               Len(e.comments) = 2 /\ e.comments[2] = Placeholder

----------------------------------------------------------------------------
(* Failures of the generation call *)

\* invocation i got a response from generateComments
GotResponse(i) == calls[i].response # NoResponse

\* C21: generateComments reports every failure as a value: without an API
\* key it answers at once, no request having been sent; after a failed
\* request or a response without choices it answers too; and each such answer
\* has success false, no comments and a message that is not empty. Comments
\* come only with success.
C21_FailureIsAValue ==
    \A i \in 1..Len(calls) :
        /\ (calls[i].status = "threw" /\ calls[i].error # "File not found")
              => GotResponse(i)
        /\ GotResponse(i) =>
              /\ ~calls[i].response.success =>
                    /\ calls[i].response.comments = <<>>
                    /\ calls[i].response.error # ""
              /\ calls[i].response.comments # <<>> => calls[i].response.success
        /\ (GotResponse(i) /\ ~apiKey) =>
              /\ ~calls[i].response.success
              /\ ResolvedAt(i) = 0

\* C21 witness: one request failed on the network and another came back
\* without choices, and both were answered with a message
C21_Witness ==
    /\ apiKey
    /\ \E i \in 1..Len(calls) :
           ResolvedAt(i) > 0 /\ calls[i].response.error = "request failed"
    /\ \E i \in 1..Len(calls) :
           ResolvedAt(i) > 0
           /\ calls[i].response.error = "No response choices from API"

----------------------------------------------------------------------------
(* Removal of a file *)

\* all five abstraction levels
AllLevels == 1..5

\* C22: after removeFile(path) no level of the path has an entry (getComments
\* is null and hasComments false for levels 1 to 5), getStoredFiles has no
\* row for the path, the counters are those of the entries left when the
\* path was in the document, and every other path has the entries it had.
C22_RemovedFileAbsent ==
    [][(last'.op = "removeFile" /\ ops' = ops + 1) =>
          LET f == last'.filePath
              key == getRelativeFilePath(workspaceFolders, f)
          IN  /\ \A l \in AllLevels :
                    /\ getComments(data', workspaceFolders, f, l).isNull
                    /\ \A c \in Contents : ~hasComments(data', workspaceFolders, f, l, c)
              /\ key \notin RowPaths(data')
              /\ key \in DOMAIN data.files =>
                    /\ getStats(data').totalFiles = CountFiles(data'.files)
                    /\ getStats(data').totalComments = CountComments(data'.files)
              /\ DOMAIN data'.files = DOMAIN data.files \ {key}
              /\ \A p \in DOMAIN data'.files : data'.files[p] = data.files[p]]_vars

\* C22 witness: a path with two levels has been removed and written; the
\* other path is still listed and the counters show its one comment
C22_Witness ==
    /\ last.op = "removeFile"
    /\ last.write = "ok"
    /\ last.filePath = <<"ws", "a.ts">>
    /\ RowPaths(data) = {<<"b.ts">>}
    /\ getStats(data).totalFiles = 1
    /\ getStats(data).totalComments = 1

----------------------------------------------------------------------------
(* Registered listeners *)

\* C23: however often the panel is opened and closed, at most one
\* document-change listener and at most one configuration-change listener
\* are registered, and at most one cursor-sync selection listener is live.
C23_ListenersDoNotAccumulate ==
    /\ listeners.documentChange <= 1
    /\ listeners.configChange <= 1
    /\ manager.cursorSync <= 1

----------------------------------------------------------------------------
(* The manager's panel after it was closed *)

\* user action k is a switchToLevel
IsSwitch(k) == commands[k].name = "switchToLevel"

\* C24: switchToLevel opens a new panel whenever none is open and re-renders
\* in place only when one is open, also after the user has closed a panel
\* opened earlier: no switchToLevel assigns the html of a closed panel.
C24_SwitchNeverRendersClosedPanel ==
    \A k \in 1..Len(commands) :
        IsSwitch(k) => <<k, "start">> \notin manager.closedRenders

----------------------------------------------------------------------------
(* The summary database *)

\* C25: every record of the summary database, stored under the key of a file
\* and a level, holds a summary generated for that level and the hash of the
\* code the summary was generated from, also when the level is changed
\* while a summary is being generated.
C25_RecordMatchesItsKey ==
    \A key \in DOMAIN summaryDatabase :
        LET record == summaryDatabase[key]
        IN  /\ key = getDatabaseKey(record.filePath, record.level)
            /\ record.summary.level = record.level
            /\ record.contentHash = generateContentHash(record.summary.code)

----------------------------------------------------------------------------
(* The fingerprint of generated entries *)

\* invocation i sent the content in its request and stored what came back
GeneratedFrom(i, filePath, level, content, comments) ==
    /\ calls[i].wrote = "store"
    /\ calls[i].filePath = filePath
    /\ calls[i].level = level
    /\ calls[i].content = content
    /\ calls[i].response.comments = comments

\* C26: every entry generateCommentsForFile has written carries the digest
\* of the content that was sent in the request whose comments it holds,
\* whatever happened to the file or to other requests meanwhile; so whenever
\* hasComments(path, level, c) is true the comments stored were generated
\* from c.
C26_FingerprintOfRequestContent ==
    \A f \in GenPaths, l \in Levels :
        /\ \A e \in EntriesAt(data, f, l) :
              \E i \in 1..Len(calls), c \in GenContents :
                  /\ e.fileHash = calculateFileHash(c)
                  /\ GeneratedFrom(i, f, l, c, e.comments)
        /\ \A c \in GenContents :
              hasComments(data, workspaceFolders, f, l, c) =>
                  \E i \in 1..Len(calls) :
                      GeneratedFrom(i, f, l, c,
                          getComments(data, workspaceFolders, f, l).comments)

\* C26 witness: a level-5 request stored its entry after the file had been
\* given other content, of another number of lines, while it was in flight
C26_Witness ==
    \E i \in 1..Len(calls) :
        /\ calls[i].wrote = "store"
        /\ calls[i].level = 5
        /\ HoldsEntryOf(i)
        /\ fsFiles[calls[i].filePath].exists
        /\ SourceLineCount(fsFiles[calls[i].filePath].content)
              # SourceLineCount(calls[i].content)
        /\ ~hasComments(data, workspaceFolders, calls[i].filePath, 5,
                        fsFiles[calls[i].filePath].content)

----------------------------------------------------------------------------
(* Overlapping panel updates *)

\* C27: when updatePanelContent calls overlap and their generation calls
\* resolve in any order, then once all have finished the commentary the panel
\* shows is that of currentLevel, the level requested last.
C27_PanelShowsCurrentLevel ==
    (/\ Awaiting(calls) = {}
     /\ \A k \in 1..Len(commands) : IsSwitch(k)
     /\ ~manager.disposed
     /\ manager.html.kind = "comments")
        => manager.html.level = manager.currentLevel

----------------------------------------------------------------------------
(* The auto-panel's update after its panel is gone *)

\* C28: updatePanelContent of the auto-panel never dereferences an absent
\* panel: when the panel is disposed while getCurrentSummary is awaited, the
\* update ends without raising an error.
C28_UpdateSurvivesDisposal == updates.failed = 0

----------------------------------------------------------------------------
(* The in-memory cache *)

\* invocation j started after invocation i had generated and cached its
\* comments, for the same file and level and with the same content read
RepeatsCached(i, j) ==
    /\ i < j
    /\ SameKey(i, j)
    /\ calls[i].wrote = "legacy"
    /\ i \notin calls[j].pending
    /\ calls[j].content = calls[i].content
    /\ \A m \in 1..Len(calls) :
           (m # i /\ SameKey(i, m) /\ calls[m].wrote = "legacy")
               => ResolvedAt(m) < ResolvedAt(i)

\* C29: without a store, a second generateCommentsForFile for the same file
\* and level with unchanged content makes no generation call and returns
\* exactly the comment sequence the first generation returned, whatever
\* that sequence is.
C29_LegacyCacheRoundTrip ==
    ~storage =>
        \A i \in 1..Len(calls), j \in 1..Len(calls) :
            RepeatsCached(i, j) =>
                /\ calls[j].source = "legacy"
                /\ calls[j].result = calls[i].result

----------------------------------------------------------------------------
(* The frame of storeComments and removeComments *)

\* the (path, cache key) pairs of the document, and the entry of a pair
EntryKeys(d) == UNION {{<<p, k>> : k \in DOMAIN d.files[p]} : p \in DOMAIN d.files}
EntryOf(d, pk) == d.files[pk[1]][pk[2]]

\* C30: storeComments(path, level, ...) and removeComments(path, level)
\* change no entry but the one at (path, level): every other entry, of
\* another level of the path or of another path, is there afterwards with
\* the comments, fingerprint, timestamp, model and language it had, no other
\* entry appears, and createdAt is as it was.
C30_OtherEntriesUntouched ==
    [][(last'.op \in {"storeComments", "removeComments"} /\ ops' = ops + 1) =>
          LET target == <<getRelativeFilePath(workspaceFolders, last'.filePath),
                          generateCacheKey(last'.filePath, last'.level)>>
          IN  /\ EntryKeys(data') \ {target} = EntryKeys(data) \ {target}
              /\ \A pk \in EntryKeys(data) \ {target} :
                    EntryOf(data', pk) = EntryOf(data, pk)
              /\ data'.metadata.createdAt = data.metadata.createdAt]_vars

\* C30 witness: two comments were stored at level 1 of a path that has a
\* level-5 entry, in a document that holds another path; both other entries
\* are there and the counters show four comments
C30_Witness ==
    /\ last.op = "storeComments"
    /\ last.write = "ok"
    /\ last.filePath = <<"ws", "a.ts">>
    /\ last.level = 1
    /\ last.comments = <<"x", "y">>
    /\ now = 1
    /\ \E e \in EntriesAt(data, <<"ws", "a.ts">>, 1) : e.timestamp = 1
    /\ \E e \in EntriesAt(data, <<"ws", "a.ts">>, 5) : e.fileHash = calculateFileHash("c2")
    /\ \E e \in EntriesAt(data, <<"ws", "b.ts">>, 5) : e.model = "unknown"
    /\ getStats(data).totalComments = 4

============================================================================
